---- MODULE Spec2Model ----
(***************************************************************************)
(* Model of the NES emulator core of rust_nes_esp: the memory bus          *)
(* (src/src/memory.rs), the PPU register file and frame state machine      *)
(* (src/src/ppu.rs) and the 6502 CPU (src/src/cpu.rs, src/src/opmap.rs).   *)
(*                                                                         *)
(* A Rust panic (index out of bounds, split_at past the end, ...) aborts   *)
(* the emulator; it is modelled by the flag `fault`, after which no        *)
(* operation is enabled.  Byte arrays are zero-initialised in the source   *)
(* and are modelled sparsely: a function from the indices that hold a      *)
(* non-zero byte to that byte.                                             *)
(***************************************************************************)
EXTENDS Integers, Sequences, FiniteSets, TLC

VARIABLES
    ram,               \* Memory.ram: [u8; 0x2000]
    battery_ram,       \* Memory.battery_ram: Option<RAM>
    program_rom,       \* Memory.program_rom: Vec<RAM>
    active_program_1,  \* Memory.active_program_1: index into program_rom, 0 = dangling
    active_program_2,  \* Memory.active_program_2: index into program_rom, 0 = dangling
    ppu,               \* Memory.ppu: PPU
    cpu,               \* the registers of CPU: program_counter, stack_pointer, ...
    fault,             \* the emulator has panicked
    last,              \* the last bus / PPU operation and what it returned
    ops                \* number of operations performed so far

vars == <<ram, battery_ram, program_rom, active_program_1, active_program_2,
          ppu, cpu, fault, last, ops>>

\* ------------------------------------------------------------------------
\* Bounds of the model
\* ------------------------------------------------------------------------
MaxOps == 3

\* number of instructions the CPU specification steps
MaxSteps == 4

\* ------------------------------------------------------------------------
\* Memory map constants (memory.rs) and PPU constants (ppu.rs)
\* ------------------------------------------------------------------------
BUILTIN_RAM == 0
MMIO == 8192
EXPANSION_ROM == 16416
SRAM == 24576
PROGRAM_ROM == 32768
PROGRAM_ROM_SIZE == 16384
PROGRAM_ROM_2 == PROGRAM_ROM + PROGRAM_ROM_SIZE
VROM_SIZE == 4096
BATTERY_RAM == 24576
BATTERY_RAM_SIZE == 8192
VRAM_SIZE == 16384
SPRAM_SIZE == 256
PATTERN_TABLE_SIZE == 4096
NAME_TABLE_SIZE == 8 * 8 + 64
NAME_TABLE_SPLIT == 961
MMIO_WRITE_MAP_LEN == 8

CYCLES_SCANLINE == 341
SCANLINES_VBLANK == 20
SCANLINES_VISIBLE == 240
SCANLINES_PRERENDER == 1
SCANLINES_POSTRENDER == 1
IDLE_CYCLES == 1
RENDER_CYCLES == 256
SPRITE_FETCH_CYCLES == 64
PRE_FETCH_CYCLES == 16
OTHER_FETCH_CYCLES == 4

VBlankIndicator == 128
SpriteCollision == 64
ScanlineSpriteCount == 32
AddressIncrement == 4
BackgroundTable == 16
NameTableAddressMask == 3

\* ------------------------------------------------------------------------
\* Fixed-width arithmetic
\* ------------------------------------------------------------------------
RECURSIVE BitAnd(_, _)
BitAnd(a, b) ==
    IF a = 0 \/ b = 0 THEN 0
    ELSE (IF a % 2 = 1 /\ b % 2 = 1 THEN 1 ELSE 0) + 2 * BitAnd(a \div 2, b \div 2)

RECURSIVE BitOr(_, _)
BitOr(a, b) ==
    IF a = 0 THEN b
    ELSE IF b = 0 THEN a
    ELSE (IF a % 2 = 1 \/ b % 2 = 1 THEN 1 ELSE 0) + 2 * BitOr(a \div 2, b \div 2)

RECURSIVE Pow2(_)
Pow2(n) == IF n = 0 THEN 1 ELSE 2 * Pow2(n - 1)

Shl16(x, n) == (x * Pow2(n)) % 65536
Not16(x) == 65535 - x

\* ------------------------------------------------------------------------
\* Zero-initialised byte arrays
\* ------------------------------------------------------------------------
Zeroed == [i \in {} |-> 0]
Get(file, i) == IF i \in DOMAIN file THEN file[i] ELSE 0
Put(file, i, v) ==
    IF v = 0 THEN [j \in (DOMAIN file) \ {i} |-> file[j]]
    ELSE [j \in (DOMAIN file) \cup {i} |-> IF j = i THEN v ELSE file[j]]

\* struct RAM { file, start_address }; len is the length of the boxed slice
NewRAM(file, len, start) == [file |-> file, len |-> len, start_address |-> start]


\* impl Index<u16> for RAM: &self.file[(address - self.start_address) as usize]
\* (an address below start_address underflows the u16 subtraction: a panic
\* with overflow checks, an index far past the end without them)
RAM_index(r, address) ==
    IF address < r.start_address \/ address - r.start_address >= r.len
    THEN [ret |-> 0, fault |-> TRUE]
    ELSE [ret |-> Get(r.file, address - r.start_address), fault |-> FALSE]

\* impl IndexMut<u16> for RAM, used as ram[address] = data
RAM_index_mut(r, address, data) ==
    IF address < r.start_address \/ address - r.start_address >= r.len
    THEN [ram |-> r, fault |-> TRUE]
    ELSE [ram |-> [r EXCEPT !.file = Put(r.file, address - r.start_address, data)],
          fault |-> FALSE]

\* ------------------------------------------------------------------------
\* PPU (ppu.rs)
\* ------------------------------------------------------------------------
\* enum PPUState / PPUScanLineState with their cycle counters
PreRender(c) == [tag |-> "PreRender", line |-> 0, sl |-> "None", cycle |-> c]
VisibleLines(l, s, c) == [tag |-> "VisibleLines", line |-> l, sl |-> s, cycle |-> c]
PostRender(c) == [tag |-> "PostRender", line |-> 0, sl |-> "None", cycle |-> c]
Vblank(c) == [tag |-> "Vblank", line |-> 0, sl |-> "None", cycle |-> c]

\* PPU::load_vrom: copy a VROM bank into pattern table dst of vram
load_vrom(vramfile, bank, dst) ==
    [j \in {k \in DOMAIN vramfile :
                k < dst * PATTERN_TABLE_SIZE \/ k >= (dst + 1) * PATTERN_TABLE_SIZE}
           \cup {dst * PATTERN_TABLE_SIZE + k : k \in DOMAIN bank.file} |->
        IF j >= dst * PATTERN_TABLE_SIZE /\ j < (dst + 1) * PATTERN_TABLE_SIZE
        THEN bank.file[j - dst * PATTERN_TABLE_SIZE]
        ELSE vramfile[j]]

\* PPU::new(vrom)
PPU_new(vrom) ==
    [state |-> PreRender(0),
     vram |-> NewRAM(IF Len(vrom) > 0
                     THEN load_vrom(load_vrom(Zeroed, vrom[1], 0),
                                    vrom[IF Len(vrom) > 1 THEN 2 ELSE 1], 1)
                     ELSE Zeroed,
                     VRAM_SIZE, 0),
     sprite_ram |-> NewRAM(Zeroed, SPRAM_SIZE, 0),
     ppu_control_1 |-> 0,
     ppu_control_2 |-> 0,
     ppu_status |-> 0,
     spr_ram_address |-> 0,
     vram_address |-> 0,
     byte_shift |-> 8,
     x_scroll |-> 0,
     y_scroll |-> 0]

\* PPU::read with the status read flipping the latch instead of resetting it
PPU_read_toggle(p, address) ==
    IF address = 8194 THEN
        [ppu |-> [p EXCEPT !.byte_shift = IF @ = 0 THEN 8 ELSE 0],
         ret |-> p.ppu_status, fault |-> FALSE]
    ELSE IF address = 8196 THEN
        [ppu |-> p, ret |-> RAM_index(p.sprite_ram, address).ret,
         fault |-> RAM_index(p.sprite_ram, address).fault]
    ELSE IF address = 8199 THEN
        [ppu |-> p, ret |-> RAM_index(p.vram, address).ret,
         fault |-> RAM_index(p.vram, address).fault]
    ELSE [ppu |-> p, ret |-> 0, fault |-> FALSE]

\* PPU::read(address): returns the byte and, through the RefCell, the PPU
PPU_read(p, address) ==
    IF address = 8194 THEN
        [ppu |-> [p EXCEPT !.byte_shift = 8], ret |-> p.ppu_status, fault |-> FALSE]
    ELSE IF address = 8196 THEN
        [ppu |-> p, ret |-> RAM_index(p.sprite_ram, address).ret,
         fault |-> RAM_index(p.sprite_ram, address).fault]
    ELSE IF address = 8199 THEN
        [ppu |-> p, ret |-> RAM_index(p.vram, address).ret,
         fault |-> RAM_index(p.vram, address).fault]
    ELSE [ppu |-> p, ret |-> 0, fault |-> FALSE]

\* the latch flip shared by set_scroll and set_vram_address
toggle_byte_shift(b) == IF b = 0 THEN 8 ELSE 0

set_ppu_control_1(p, data) == [ppu |-> [p EXCEPT !.ppu_control_1 = data], fault |-> FALSE]

set_ppu_control_2(p, data) == [ppu |-> [p EXCEPT !.ppu_control_2 = data], fault |-> FALSE]

set_spr_ram_address(p, data) == [ppu |-> [p EXCEPT !.spr_ram_address = data], fault |-> FALSE]

\* set_scroll with the latch test inverted
set_scroll_swapped(p, data) ==
    [ppu |-> [p EXCEPT !.x_scroll = IF p.byte_shift = 0 THEN data ELSE @,
                       !.y_scroll = IF p.byte_shift = 0 THEN @ ELSE data,
                       !.byte_shift = IF @ = 0 THEN 8 ELSE 0],
     fault |-> FALSE]

\* PPU::set_scroll
set_scroll(p, data) ==
    [ppu |-> [p EXCEPT !.x_scroll = IF p.byte_shift # 0 THEN data ELSE @,
                       !.y_scroll = IF p.byte_shift # 0 THEN @ ELSE data,
                       !.byte_shift = toggle_byte_shift(@)],
     fault |-> FALSE]

\* the mask applied to the shifted data byte in set_vram_address
VRAM_ADDRESS_MASK == 160

\* PPU::set_vram_address; the u16 addition panics on overflow in a build
\* with overflow checks
set_vram_address(p, data) ==
    LET cleared == BitAnd(p.vram_address, Not16(Shl16(255, p.byte_shift)))
        written == BitOr(cleared, BitAnd(Shl16(data, p.byte_shift), VRAM_ADDRESS_MASK))
        inc     == IF BitAnd(p.ppu_control_1, AddressIncrement) # 0 THEN 32 ELSE 1
    IN  [ppu |-> [p EXCEPT !.vram_address = (written + inc) % 65536,
                           !.byte_shift = toggle_byte_shift(@)],
         fault |-> written + inc > 65535]

write_spram(p, data) ==
    LET w == RAM_index_mut(p.sprite_ram, p.spr_ram_address, data)
    IN  [ppu |-> [p EXCEPT !.sprite_ram = w.ram], fault |-> w.fault]

write_vram(p, data) ==
    LET w == RAM_index_mut(p.vram, p.vram_address % VRAM_SIZE, data)
    IN  [ppu |-> [p EXCEPT !.vram = w.ram], fault |-> w.fault]

ignore(p, data) == [ppu |-> p, fault |-> FALSE]


\* the width of the frame in pixels
FRAME_WIDTH == 256

\* PPU::map_pixel_to_pattern(pixel), as u8
map_pixel_to_pattern(pixel) ==
    (((pixel \div (FRAME_WIDTH * 8)) * 8) + ((pixel \div FRAME_WIDTH) % 8)) % 256

\* NameTable::map_pattern_to_attribute(pattern) on the attribute bytes of the
\* name table: (attribute_byte >> (3 - shift_amnt)) & 0x3
map_pattern_to_attribute(attribute, pattern) ==
    LET attribute_byte == Get(attribute, ((pattern % 32) \div 4) + ((pattern \div 128) * 8))
        shift_amnt == BitOr((pattern % 4) \div 2, ((pattern \div 32) % 2) * 2)
    IN  BitAnd(attribute_byte \div Pow2(3 - shift_amnt), 3)

RECURSIVE PPU_advance(_, _)
\* next_state! handing no cycles over to the next sub-phase
next_state_restart(p, line, current, threshhold, stay, next) ==
    IF current > threshhold
    THEN PPU_advance([p EXCEPT !.state = VisibleLines(line, next, 0)], 0)
    ELSE [ppu |-> [p EXCEPT !.state = VisibleLines(line, stay, current)],
          fault |-> FALSE, bursts |-> {}]

\* next_state! macro of PPU::advance: the sub-phase `stay` of scanline `line`
\* either keeps counting or hands the remaining cycles to sub-phase `next`
next_state(p, line, current, threshhold, stay, next) ==
    IF current > threshhold
    THEN PPU_advance([p EXCEPT !.state = VisibleLines(line, next, 0)],
                     current - threshhold)
    ELSE [ppu |-> [p EXCEPT !.state = VisibleLines(line, stay, current)],
          fault |-> FALSE, bursts |-> {}]

\* impl From<&[u8]> for NameTable: value.split_at(961) panics when the slice
\* is shorter than 961 bytes
NameTable_from_faults(len) == NAME_TABLE_SPLIT > len

\* PatternTable::write_rgb_row(pixels, row, upper_bits) called with the whole
\* of buf: the offsets of buf it writes, the first 8 chunks of 3 bytes
write_rgb_row(row, upper_bits) == 0..(8 * 3 - 1)

\* one pass of the loop of the Render arm at `next`: the tile it looks up, the
\* VRAM address of the pattern it reads and the offsets of buf it writes
Render_burst(p, next) ==
    LET name_table_address ==
            BitAnd(p.ppu_control_1, NameTableAddressMask) * NAME_TABLE_SIZE + 8192
        pattern_idx == map_pixel_to_pattern(next)
        table_id == Get(p.vram.file, name_table_address + pattern_idx)
        pattern_address ==
            BitAnd(Shl16(BitAnd(p.ppu_control_1, BackgroundTable), 8),
                   Shl16(table_id, 4))
        attribute == [i \in 0..(NAME_TABLE_SIZE - NAME_TABLE_SPLIT - 1) |->
                         Get(p.vram.file, name_table_address + NAME_TABLE_SPLIT + i)]
    IN  [next |-> next,
         pattern_idx |-> pattern_idx,
         pattern_address |-> pattern_address,
         cells |-> write_rgb_row((next \div FRAME_WIDTH) % 8,
                                 map_pattern_to_attribute(attribute, pattern_idx) * 4)]

\* the result of the rest of an advance with the bursts rendered before it
with_bursts(bursts, r) == [r EXCEPT !.bursts = @ \cup bursts]

\* PPU::advance(cycles, buf).  In the Render sub-phase the first 8-pixel burst
\* builds a NameTable from a NAME_TABLE_SIZE-byte slice of vram, which panics
\* before any byte of buf is written.  `bursts` are the passes of the Render
\* loop the call has made.
PPU_advance(p, cycles) ==
    LET cycle == p.state.cycle
        line  == p.state.line
    IN
    IF p.state.tag = "PreRender" THEN
        IF cycle + cycles > SCANLINES_PRERENDER * CYCLES_SCANLINE
        THEN PPU_advance([p EXCEPT !.state = VisibleLines(0, "Idle", 0)],
                         cycle + cycles - SCANLINES_PRERENDER * CYCLES_SCANLINE)
        ELSE [ppu |-> [p EXCEPT !.state = PreRender(cycle + cycles)], fault |-> FALSE,
              bursts |-> {}]
    ELSE IF p.state.tag = "VisibleLines" THEN
        IF p.state.sl = "Idle" THEN
            next_state(p, line, cycle + cycles, IDLE_CYCLES, "Idle", "Render")
        ELSE IF p.state.sl = "Render" THEN
            LET next == (cycle \div 8) * 8
                dest == ((cycles + cycle) \div 8) * 8
                name_table_address ==
                    BitAnd(p.ppu_control_1, NameTableAddressMask) * NAME_TABLE_SIZE + 8192
            IN  IF next < dest /\ next < RENDER_CYCLES
                   /\ (name_table_address + NAME_TABLE_SIZE > p.vram.len
                       \/ NameTable_from_faults(NAME_TABLE_SIZE))
                THEN [ppu |-> p, fault |-> TRUE, bursts |-> {}]
                ELSE with_bursts(
                         {Render_burst(p, n) :
                              n \in {k \in next..(RENDER_CYCLES - 1) : k % 8 = 0 /\ k < dest}},
                         next_state(p, line, cycle + cycles, RENDER_CYCLES,
                                    "Render", "SpriteFetch"))
        ELSE IF p.state.sl = "SpriteFetch" THEN
            next_state(p, line, cycle + cycles, SPRITE_FETCH_CYCLES,
                       "SpriteFetch", "OtherFetch")
        ELSE IF p.state.sl = "PreFetch" THEN
            next_state(p, line, cycle + cycles, PRE_FETCH_CYCLES,
                       "PreFetch", "OtherFetch")
        ELSE
            IF cycle + cycles > OTHER_FETCH_CYCLES
            THEN PPU_advance(
                    [p EXCEPT !.state = IF line + 1 >= SCANLINES_VISIBLE
                                        THEN PostRender(0)
                                        ELSE VisibleLines(line + 1, "Idle", 0)],
                    cycle + cycles - OTHER_FETCH_CYCLES)
            ELSE [ppu |-> [p EXCEPT !.state = VisibleLines(line, "OtherFetch", cycle + cycles)],
                  fault |-> FALSE, bursts |-> {}]
    ELSE IF p.state.tag = "PostRender" THEN
        IF cycle + cycles > SCANLINES_POSTRENDER * CYCLES_SCANLINE
        THEN PPU_advance([p EXCEPT !.state = Vblank(0)],
                         cycle + cycles - SCANLINES_POSTRENDER * CYCLES_SCANLINE)
        ELSE [ppu |-> [p EXCEPT !.state = PostRender(cycle + cycles)], fault |-> FALSE,
              bursts |-> {}]
    ELSE
        LET next == cycle + cycles
            q == [p EXCEPT !.ppu_status =
                     IF cycle < 2 /\ next >= 2 THEN BitOr(@, VBlankIndicator) ELSE @]
        IN  IF next > SCANLINES_VBLANK * CYCLES_SCANLINE
            THEN PPU_advance([q EXCEPT !.state = PreRender(0)],
                             next - SCANLINES_VBLANK * CYCLES_SCANLINE)
            ELSE [ppu |-> [q EXCEPT !.state = Vblank(next)], fault |-> FALSE,
                  bursts |-> {}]

\* ------------------------------------------------------------------------
\* Memory bus (memory.rs)
\* ------------------------------------------------------------------------
\* address_mmio_map mirroring the registers every 16 bytes
address_mmio_map_16(address) ==
    IF address >= 8192 /\ address < 16384 THEN (address - 8192) % 16
    ELSE address - 16384

\* address_mmio_map(address): index into MMIO_WRITE_MAP
address_mmio_map(address) ==
    IF address >= 8192 /\ address < 16384 THEN (address - 8192) % 8
    ELSE address - 16384

\* MMIO_WRITE_MAP[idx](&mut ppu, data); the table has 8 entries
MMIO_WRITE_MAP(idx, p, data) ==
    IF idx >= MMIO_WRITE_MAP_LEN THEN [ppu |-> p, fault |-> TRUE]
    ELSE IF idx = 0 THEN set_ppu_control_1(p, data)
    ELSE IF idx = 1 THEN set_ppu_control_2(p, data)
    ELSE IF idx = 3 THEN set_spr_ram_address(p, data)
    ELSE IF idx = 4 THEN write_spram(p, data)
    ELSE IF idx = 5 THEN set_scroll(p, data)
    ELSE IF idx = 6 THEN set_vram_address(p, data)
    ELSE IF idx = 7 THEN write_vram(p, data)
    ELSE ignore(p, data)

\* index_ram without the 2 KiB mirroring
index_ram_unmirrored(address) == address

\* the index of built-in RAM that a read of `address` uses (Index, RAM arm)
index_ram(address) == address % 2048

\* write_ram mirroring every 1 KiB instead of every 2 KiB
write_ram_short(address) == address % 1024

\* the index of built-in RAM that a write to `address` uses (write, RAM arm)
write_ram(address) == address % 2048

\* the fields of Memory that reads and writes touch
Mem == [ram |-> ram, battery_ram |-> battery_ram, ppu |-> ppu]

\* bytes a read through a dangling bank pointer may produce
DanglingBytes == {0, 255}

\* a read through active_program_1/2: the pointed-to bank, indexed by address;
\* a dangling pointer (Memory::from_program takes the address of a local that
\* is then moved) yields the intended byte, another byte, or a crash
active_program_read(active, address) ==
    IF active = 0
    THEN {[ret |-> b, fault |-> FALSE] :
              b \in DanglingBytes \cup {RAM_index(program_rom[1], address).ret}}
         \cup {[ret |-> 0, fault |-> TRUE]}
    ELSE {RAM_index(program_rom[active], address)}

\* impl Index<u16> for Memory: the set of outcomes of reading `address`;
\* a singleton except for reads through a dangling bank pointer
Memory_index(m, address) ==
    IF address < MMIO THEN
        {[mem |-> m, ret |-> Get(m.ram, index_ram(address)), fault |-> FALSE]}
    ELSE IF address < EXPANSION_ROM THEN
        LET r == PPU_read(m.ppu, address)
        IN  {[mem |-> [m EXCEPT !.ppu = r.ppu], ret |-> r.ret, fault |-> r.fault]}
    ELSE IF address < SRAM THEN
        {[mem |-> m, ret |-> 0, fault |-> FALSE]}
    ELSE IF address < PROGRAM_ROM THEN
        IF m.battery_ram.some
        THEN {[mem |-> m, ret |-> RAM_index(m.battery_ram.ram, address).ret,
               fault |-> RAM_index(m.battery_ram.ram, address).fault]}
        ELSE {[mem |-> m, ret |-> 0, fault |-> FALSE]}
    ELSE IF address < PROGRAM_ROM_2 THEN
        {[mem |-> m, ret |-> o.ret, fault |-> o.fault] :
            o \in active_program_read(active_program_1, address)}
    ELSE
        {[mem |-> m, ret |-> o.ret, fault |-> o.fault] :
            o \in active_program_read(active_program_2, address)}

\* write_sram unwrapping the optional battery RAM instead of testing it
write_sram_unwrap(m, address, data) ==
    IF m.battery_ram.some
    THEN LET w == RAM_index_mut(m.battery_ram.ram, address, data)
         IN  [mem |-> [m EXCEPT !.battery_ram.ram = w.ram], fault |-> w.fault]
    ELSE [mem |-> m, fault |-> TRUE]

\* Memory::write, SRAM arm: stores only when battery RAM is present
write_sram(m, address, data) ==
    IF m.battery_ram.some
    THEN LET w == RAM_index_mut(m.battery_ram.ram, address, data)
         IN  [mem |-> [m EXCEPT !.battery_ram.ram = w.ram], fault |-> w.fault]
    ELSE [mem |-> m, fault |-> FALSE]

\* Memory::write(address, data)
Memory_write(m, address, data) ==
    IF address < MMIO THEN
        [mem |-> [m EXCEPT !.ram = Put(@, write_ram(address), data)], fault |-> FALSE]
    ELSE IF address < EXPANSION_ROM THEN
        LET w == MMIO_WRITE_MAP(address_mmio_map(address), m.ppu, data)
        IN  [mem |-> [m EXCEPT !.ppu = w.ppu], fault |-> w.fault]
    ELSE IF address < SRAM THEN
        [mem |-> m, fault |-> FALSE]
    ELSE IF address < PROGRAM_ROM THEN
        write_sram(m, address, data)
    ELSE [mem |-> m, fault |-> FALSE]


\* ------------------------------------------------------------------------
\* Construction
\* ------------------------------------------------------------------------
None == [some |-> FALSE, ram |-> NewRAM(Zeroed, 0, 0)]
Some(r) == [some |-> TRUE, ram |-> r]

\* programs handed to Memory::from_program (ORA #$AA)
Programs == { (0 :> 9) @@ (1 :> 170) }

\* cartridge images that Memory::from_file loads successfully: program banks,
\* VROM banks, the battery bit and the trainer bytes (empty without trainer)
Images ==
    { [prg |-> << (0 :> 169) @@ (16383 :> 128) >>, vrom |-> << >>,
       battery |-> FALSE, trainer |-> Zeroed],
      [prg |-> << (0 :> 76), (16380 :> 192) >>, vrom |-> << (7 :> 60) >>,
       battery |-> TRUE, trainer |-> Zeroed],
      [prg |-> << (1 :> 234) >>, vrom |-> << (0 :> 24), (4095 :> 129) >>,
       battery |-> TRUE, trainer |-> (0 :> 77) @@ (511 :> 3)] }

\* Memory::from_program(program): the bank pointers are taken from a local
\* RAM that is moved into the vector afterwards, so both dangle
from_program(program) ==
    [program_rom |-> << NewRAM(program, 65536 - PROGRAM_ROM, PROGRAM_ROM) >>,
     active_program_1 |-> 0,
     active_program_2 |-> 0,
     ram |-> Zeroed,
     battery_ram |-> None,
     ppu |-> PPU_new(<< >>)]

\* Memory::from_file(path), for an image that loads: both windows point at
\* program[0], whose start_address is PROGRAM_ROM
from_file(image) ==
    [program_rom |-> [i \in 1..Len(image.prg) |->
                         NewRAM(image.prg[i], PROGRAM_ROM_SIZE, PROGRAM_ROM)],
     active_program_1 |-> 1,
     active_program_2 |-> 1,
     ram |-> Zeroed,
     battery_ram |-> IF image.battery
                     THEN Some(NewRAM([j \in {4096 + k : k \in DOMAIN image.trainer} |->
                                          image.trainer[j - 4096]],
                                      BATTERY_RAM_SIZE, BATTERY_RAM))
                     ELSE None,
     ppu |-> PPU_new([i \in 1..Len(image.vrom) |-> NewRAM(image.vrom[i], VROM_SIZE, 0)])]

Constructed == {from_program(pr) : pr \in Programs} \cup {from_file(im) : im \in Images}

\* ------------------------------------------------------------------------
\* CPU (cpu.rs): registers, flags, bus access
\* ------------------------------------------------------------------------
STACK_RESET == 255
STACK_OFFSET == 256

CARRY == 1
ZERO == 2
INTERRUPT == 4
DECIMAL == 8
BREAK == 16
UNUSED == 32
OVERFLOW == 64
NEGATIVE == 128

\* bitflags: contains, insert, remove, set, for a single flag f = 1 << k
contains(p, f) == (p \div f) % 2 = 1
insert(p, f) == IF contains(p, f) THEN p ELSE p + f
remove(p, f) == IF contains(p, f) THEN p - f ELSE p
set(p, f, b) == IF b THEN insert(p, f) ELSE remove(p, f)

\* u16::from_le_bytes([low, high])
from_le_bytes(low, high) == low + 256 * high

\* the registers CPU::with_program leaves
with_program ==
    [program_counter |-> PROGRAM_ROM, stack_pointer |-> STACK_RESET,
     accumulator |-> 0, idx_register_x |-> 0, idx_register_y |-> 0,
     processor_status |-> 0]

\* the registers CPU::from_file_nestest leaves
from_file_nestest ==
    [program_counter |-> 49152, stack_pointer |-> STACK_RESET - 2,
     accumulator |-> 0, idx_register_x |-> 0, idx_register_y |-> 0,
     processor_status |-> 36]

\* what one instruction cannot control: the outcome of reads through a dangling
\* bank pointer (the intended byte, another byte, a crash) and whether the
\* build checks integer overflow (debug) or wraps (release)
Intended == 256
Crash == 257
DanglingChoices == DanglingBytes \cup {Intended, Crash}
Envs == [dang : DanglingChoices, overflow_checks : BOOLEAN]

\* self.memory[address] as one outcome of Memory_index, selected by env.dang
Memory_read(m, address, dang) ==
    LET select(outs) ==
            IF Cardinality(outs) = 1 THEN CHOOSE o \in outs : TRUE
            ELSE IF dang = Crash THEN CHOOSE o \in outs : o.fault
            ELSE IF dang = Intended
                 THEN CHOOSE o \in outs :
                          ~o.fault /\ o.ret = RAM_index(program_rom[1], address).ret
            ELSE CHOOSE o \in outs : ~o.fault /\ o.ret = dang
    IN  select(Memory_index(m, address))

\* the CPU while it executes one instruction: its memory, its registers,
\* whether it has panicked, the bus accesses made so far, and whether a u16
\* addition has overflowed
Machine(m, r) == [mem |-> m, r |-> r, fault |-> FALSE, log |-> << >>, wrapped |-> FALSE]

\* self.memory[address]
mread(c, address, env) ==
    LET done(o) ==
            LET l == Append(c.log, [kind |-> "read", addr |-> address, data |-> o.ret])
            IN  IF o.fault THEN [c |-> [c EXCEPT !.fault = TRUE, !.log = l], ret |-> 0]
                ELSE [c |-> [c EXCEPT !.mem = o.mem, !.log = l], ret |-> o.ret]
    IN  IF c.fault THEN [c |-> c, ret |-> 0]
        ELSE done(Memory_read(c.mem, address, env.dang))

\* self.memory.write(address, data)
mwrite(c, address, data) ==
    LET done(w) ==
            LET l == Append(c.log, [kind |-> "write", addr |-> address, data |-> data])
            IN  IF w.fault THEN [c EXCEPT !.fault = TRUE, !.log = l]
                ELSE [c EXCEPT !.mem = w.mem, !.log = l]
    IN  IF c.fault THEN c
        ELSE done(Memory_write(c.mem, address, data))

\* a + b on u16: panics on overflow when the build checks it, wraps otherwise
add_u16(c, a, b, env) ==
    IF a + b <= 65535 THEN [c |-> c, ret |-> a + b]
    ELSE IF env.overflow_checks
         THEN [c |-> [c EXCEPT !.fault = TRUE, !.wrapped = TRUE], ret |-> 0]
    ELSE [c |-> [c EXCEPT !.wrapped = TRUE], ret |-> (a + b) % 65536]

\* self.program_counter += n
advance_pc(c, n, env) ==
    LET moved(s) == IF s.c.fault THEN s.c ELSE [s.c EXCEPT !.r.program_counter = s.ret]
    IN  IF c.fault THEN c
        ELSE moved(add_u16(c, c.r.program_counter, n, env))

\* ------------------------------------------------------------------------
\* CPU addressing modes: each returns the machine and the effective address.
\* A local operator after_v(v) is the rest of the function once `v` is bound.
\* ------------------------------------------------------------------------
get_immediate(c, env) ==
    [c |-> advance_pc(c, 1, env), ret |-> c.r.program_counter]

get_zero_page(c, env) ==
    mread(advance_pc(c, 1, env), c.r.program_counter, env)

get_zero_page_x(c, env) ==
    LET after_b(b) == [c |-> b.c, ret |-> (b.ret + c.r.idx_register_x) % 256]
    IN  after_b(mread(advance_pc(c, 1, env), c.r.program_counter, env))

get_zero_page_y(c, env) ==
    LET after_b(b) == [c |-> b.c, ret |-> (b.ret + c.r.idx_register_y) % 256]
    IN  after_b(mread(advance_pc(c, 1, env), c.r.program_counter, env))

get_zero_page_x_indirect(c, env) ==
    LET after_high(low, high) ==
            [c |-> high.c, ret |-> from_le_bytes(low.ret, high.ret)]
        after_low(low, indirect_address) ==
            after_high(low, mread(low.c, indirect_address + 1, env))
        after_b(b) ==
            LET indirect_address == (b.ret + c.r.idx_register_x) % 256
            IN  after_low(mread(b.c, indirect_address, env), indirect_address)
    IN  after_b(mread(advance_pc(c, 1, env), c.r.program_counter, env))

get_zero_page_y_indirect(c, env) ==
    LET after_high(low, high) ==
            [c |-> high.c,
             ret |-> (from_le_bytes(low.ret, high.ret) + c.r.idx_register_y) % 65536]
        after_low(low, indirect_address) ==
            after_high(low, mread(low.c, indirect_address + 1, env))
        after_b(b) ==
            LET indirect_address == b.ret
            IN  after_low(mread(b.c, indirect_address, env), indirect_address)
    IN  after_b(mread(advance_pc(c, 1, env), c.r.program_counter, env))

get_absolute(c, env) ==
    LET after_high(low, high) ==
            [c |-> advance_pc(high.c, 2, env), ret |-> from_le_bytes(low.ret, high.ret)]
        after_low(low) ==
            LET next == add_u16(low.c, c.r.program_counter, 1, env)
            IN  after_high(low, mread(next.c, next.ret, env))
    IN  after_low(mread(c, c.r.program_counter, env))

get_absolute_x(c, env) ==
    LET after_base_addr(base_addr) ==
            [c |-> base_addr.c, ret |-> (base_addr.ret + c.r.idx_register_x) % 65536]
    IN  after_base_addr(get_absolute(c, env))

get_absolute_y(c, env) ==
    LET after_base_addr(base_addr) ==
            [c |-> base_addr.c, ret |-> (base_addr.ret + c.r.idx_register_y) % 65536]
    IN  after_base_addr(get_absolute(c, env))

get_absolute_indirect(c, env) ==
    LET after_high(low, high) ==
            [c |-> high.c, ret |-> from_le_bytes(low.ret, high.ret)]
        after_low(low, addr_ptr) ==
            after_high(low, mread(low.c, (addr_ptr.ret + 1) % 65536, env))
        after_addr_ptr(addr_ptr) ==
            after_low(mread(addr_ptr.c, addr_ptr.ret, env), addr_ptr)
    IN  after_addr_ptr(get_absolute(c, env))

\* byte as u16, without the sign
zero_extend(b) == b

\* (byte as i8) as i16 as u16
sign_extend(b) == IF b >= 128 THEN 65536 - 256 + b ELSE b

get_relative(c, env) ==
    LET after_pc(offset, c1) ==
            [c |-> c1, ret |-> (c1.r.program_counter + sign_extend(offset.ret)) % 65536]
        after_offset(offset) == after_pc(offset, advance_pc(offset.c, 1, env))
    IN  after_offset(mread(c, c.r.program_counter, env))

\* the addressing mode a handler was instantiated with
get_address(mode, c, env) ==
    CASE mode = "immediate" -> get_immediate(c, env)
      [] mode = "zero_page" -> get_zero_page(c, env)
      [] mode = "zero_page_x" -> get_zero_page_x(c, env)
      [] mode = "zero_page_y" -> get_zero_page_y(c, env)
      [] mode = "zero_page_x_indirect" -> get_zero_page_x_indirect(c, env)
      [] mode = "zero_page_y_indirect" -> get_zero_page_y_indirect(c, env)
      [] mode = "absolute" -> get_absolute(c, env)
      [] mode = "absolute_x" -> get_absolute_x(c, env)
      [] mode = "absolute_y" -> get_absolute_y(c, env)

\* ------------------------------------------------------------------------
\* CPU instruction handlers: each maps the machine to the machine.
\* A local operator after_v(v) is the rest of the handler once `v` is bound.
\* ------------------------------------------------------------------------
BitXor(a, b) == BitOr(a, b) - BitAnd(a, b)

\* update_negative_zero_flags(test): ZERO and NEGATIVE are cleared and then
\* set from self.accumulator; the argument is not used
update_negative_zero_flags(c, test) ==
    LET cleared == remove(remove(c.r.processor_status, ZERO), NEGATIVE)
        z == IF c.r.accumulator = 0 THEN insert(cleared, ZERO) ELSE cleared
        n == IF BitAnd(c.r.accumulator, 128) /= 0 THEN insert(z, NEGATIVE) ELSE z
    IN  [c EXCEPT !.r.processor_status = n]

\* get_stack without the stack page offset
get_stack_zero_page(c) == c.r.stack_pointer

get_stack(c) == c.r.stack_pointer + STACK_OFFSET

push_stack(c, data) ==
    LET after_write(w) == [w EXCEPT !.r.stack_pointer = (c.r.stack_pointer + 255) % 256]
    IN  after_write(mwrite(c, get_stack(c), data))

\* pop_stack reading the byte under the stack pointer before moving it
pop_stack_read_first(c, env) ==
    LET after_top(top) ==
            [c |-> [top.c EXCEPT !.r.stack_pointer = (c.r.stack_pointer + 1) % 256],
             ret |-> top.ret]
    IN  after_top(mread(c, get_stack(c), env))

pop_stack(c, env) ==
    LET c1 == [c EXCEPT !.r.stack_pointer = (c.r.stack_pointer + 1) % 256]
    IN  mread(c1, get_stack(c1), env)

noop(c) == c

transfer_x_sp(c) == [c EXCEPT !.r.stack_pointer = c.r.idx_register_x]

push_a(c) == push_stack(c, c.r.accumulator)

push_status(c) == push_stack(c, c.r.processor_status)

pull_a(c, env) ==
    LET after_top(top) ==
            LET c1 == [top.c EXCEPT !.r.accumulator = top.ret]
            IN  update_negative_zero_flags(c1, c1.r.accumulator)
    IN  after_top(pop_stack(c, env))

pull_status(c, env) ==
    LET after_top(top) == [top.c EXCEPT !.r.processor_status = top.ret]
    IN  after_top(pop_stack(c, env))

\* transfer_gen!(name, source, target)
transfer_gen(c, source, target) ==
    LET c1 == [c EXCEPT !.r[target] = c.r[source]]
    IN  update_negative_zero_flags(c1, c1.r[target])

\* load_gen!(name, addressing_mode, target)
load_gen(c, mode, target, env) ==
    LET after_data(data) ==
            LET c1 == [data.c EXCEPT !.r[target] = data.ret]
            IN  update_negative_zero_flags(c1, c1.r[target])
        after_address(address) == after_data(mread(address.c, address.ret, env))
    IN  after_address(get_address(mode, c, env))

\* store_gen!(name, addressing_mode, register)
store_gen(c, mode, register, env) ==
    LET after_address(address) == mwrite(address.c, address.ret, c.r[register])
    IN  after_address(get_address(mode, c, env))

\* or_gen!, eor_gen!, and_gen!: the accumulator combined with the operand
logic_gen(c, mode, op, env) ==
    LET after_data(data) ==
            LET a == data.c.r.accumulator
                c1 == [data.c EXCEPT !.r.accumulator =
                           CASE op = "or" -> BitOr(a, data.ret)
                             [] op = "eor" -> BitXor(a, data.ret)
                             [] op = "and" -> BitAnd(a, data.ret)]
            IN  update_negative_zero_flags(c1, c1.r.accumulator)
        after_address(address) == after_data(mread(address.c, address.ret, env))
    IN  after_address(get_address(mode, c, env))

\* clear_flag_gen!, set_flag_gen!
clear_flag_gen(c, flag) == [c EXCEPT !.r.processor_status = remove(@, flag)]
set_flag_gen(c, flag) == [c EXCEPT !.r.processor_status = insert(@, flag)]

\* branch_gen!(name, inverse_name, flag): `taken` is the flag value that branches
branch_gen(c, flag, taken, env) ==
    LET after_target(target) == [target.c EXCEPT !.r.program_counter = target.ret]
    IN  IF contains(c.r.processor_status, flag) = taken
        THEN after_target(get_relative(c, env))
        ELSE advance_pc(c, 1, env)

jump_absolute(c, env) ==
    LET after_target(target) == [target.c EXCEPT !.r.program_counter = target.ret]
    IN  after_target(get_absolute(c, env))

jump_absolute_indirect(c, env) ==
    LET after_target(target) == [target.c EXCEPT !.r.program_counter = target.ret]
    IN  after_target(get_absolute_indirect(c, env))

\* add_with_carry_gen with the carry of the second addition dropped
add_with_carry_gen_carry1(c, mode, env) ==
    LET after_sum(data, a, sum, carry1) ==
            LET signed_overflow ==
                    BitAnd(BitAnd(BitXor(a, sum), BitXor(data.ret, sum)), 128) /= 0
                p == set(set(data.c.r.processor_status, CARRY, carry1),
                         OVERFLOW, signed_overflow)
                c1 == [data.c EXCEPT !.r.processor_status = p, !.r.accumulator = sum]
            IN  update_negative_zero_flags(c1, c1.r.accumulator)
        after_data(data) ==
            LET a == data.c.r.accumulator
                carry == IF contains(data.c.r.processor_status, CARRY) THEN 1 ELSE 0
            IN  after_sum(data, a, (a + data.ret + carry) % 256, a + data.ret > 255)
        after_address(address) == after_data(mread(address.c, address.ret, env))
    IN  after_address(get_address(mode, c, env))

\* add_with_carry_gen!(name, addr_mode)
add_with_carry_gen(c, mode, env) ==
    LET after_sum(data, a, sum, carry1, carry2) ==
            LET signed_overflow ==
                    BitAnd(BitAnd(BitXor(a, sum), BitXor(data.ret, sum)), 128) /= 0
                p == set(set(data.c.r.processor_status, CARRY, carry1 \/ carry2),
                         OVERFLOW, signed_overflow)
                c1 == [data.c EXCEPT !.r.processor_status = p, !.r.accumulator = sum]
            IN  update_negative_zero_flags(c1, c1.r.accumulator)
        after_sum1(data, a, carry, sum1, carry1) ==
            after_sum(data, a, (sum1 + carry) % 256, carry1, sum1 + carry > 255)
        after_data(data) ==
            LET a == data.c.r.accumulator
                carry == IF contains(data.c.r.processor_status, CARRY) THEN 1 ELSE 0
            IN  after_sum1(data, a, carry, (a + data.ret) % 256, a + data.ret > 255)
        after_address(address) == after_data(mread(address.c, address.ret, env))
    IN  after_address(get_address(mode, c, env))

\* subtract_with_carry_gen!(name, addr_mode)
subtract_with_carry_gen(c, mode, env) ==
    LET after_sum(data, a, not_data, sum) ==
            LET signed_overflow ==
                    BitAnd(BitAnd(BitXor(a, sum), BitXor(not_data, sum)), 128) /= 0
                p == set(set(data.c.r.processor_status, CARRY, ~(a <= sum)),
                         OVERFLOW, signed_overflow)
                c1 == [data.c EXCEPT !.r.processor_status = p, !.r.accumulator = sum]
            IN  update_negative_zero_flags(c1, c1.r.accumulator)
        after_data(data) ==
            LET a == data.c.r.accumulator
                carry == IF contains(data.c.r.processor_status, CARRY) THEN 1 ELSE 0
                not_data == 255 - data.ret
            IN  after_sum(data, a, not_data, (a + not_data + carry) % 256)
        after_address(address) == after_data(mread(address.c, address.ret, env))
    IN  after_address(get_address(mode, c, env))

\* u8::wrapping_add(v, 1) / u8::wrapping_sub(v, 1)
operation(op, v) == IF op = "inc" THEN (v + 1) % 256 ELSE (v + 255) % 256

\* inc_dec_gen!(name, target, operation)
inc_dec_gen(c, target, op) ==
    LET c1 == [c EXCEPT !.r[target] = operation(op, c.r[target])]
    IN  update_negative_zero_flags(c1, c1.r[target])

\* inc_dec_mem_gen!(name, addr_mode, operation)
inc_dec_mem_gen(c, mode, op, env) ==
    LET after_data(address, data) ==
            LET value == operation(op, data.ret)
            IN  update_negative_zero_flags(mwrite(data.c, address.ret, value), value)
        after_address(address) ==
            after_data(address, mread(address.c, address.ret, env))
    IN  after_address(get_address(mode, c, env))

\* the byte and the carry a shift or rotate produces from `data` and carry-in
shifted(op, data, carry_in) ==
    CASE op = "asl" -> [data |-> (data * 2) % 256, carry |-> data \div 128 = 1]
      [] op = "rol" -> [data |-> BitOr((data * 2) % 256, carry_in),
                        carry |-> data \div 128 = 1]
      [] op = "lsr" -> [data |-> data \div 2, carry |-> data % 2 = 1]
      [] op = "ror" -> [data |-> BitOr(data \div 2, carry_in * 128),
                        carry |-> data % 2 = 1]

\* arithmetic_left_shift_gen!, rotate_left_gen!, logical_shift_right_gen!,
\* rotate_right_gen!: the memory forms
shift_mem_gen(c, mode, op, env) ==
    LET after_shift(address, data, r) ==
            LET c1 == [data.c EXCEPT !.r.processor_status = set(@, CARRY, r.carry)]
            IN  update_negative_zero_flags(mwrite(c1, address.ret, r.data), r.data)
        after_data(address, data) ==
            LET carry_in == IF contains(data.c.r.processor_status, CARRY) THEN 1 ELSE 0
            IN  after_shift(address, data, shifted(op, data.ret, carry_in))
        after_address(address) ==
            after_data(address, mread(address.c, address.ret, env))
    IN  after_address(get_address(mode, c, env))

\* asl_a, lsr_a, ror_a update the N and Z flags; rol_a does not
shift_a(c, op) ==
    LET after_shift(r) ==
            LET c1 == [c EXCEPT !.r.processor_status = set(@, CARRY, r.carry),
                                !.r.accumulator = r.data]
            IN  IF op = "rol" THEN c1
                ELSE update_negative_zero_flags(c1, c1.r.accumulator)
        carry_in == IF contains(c.r.processor_status, CARRY) THEN 1 ELSE 0
    IN  after_shift(shifted(op, c.r.accumulator, carry_in))

\* bit_test_gen!(name, addr_mode)
bit_test_gen(c, mode, env) ==
    LET after_data(data) ==
            LET p == set(set(set(data.c.r.processor_status,
                                 NEGATIVE, BitAnd(data.ret, NEGATIVE) /= 0),
                             OVERFLOW, BitAnd(data.ret, OVERFLOW) /= 0),
                         ZERO, BitAnd(data.c.r.accumulator, data.ret) = 0)
            IN  [data.c EXCEPT !.r.processor_status = p]
        after_address(address) == after_data(mread(address.c, address.ret, env))
    IN  after_address(get_address(mode, c, env))

\* compare_gen!(name, register, addr_mode)
compare_gen(c, register, mode, env) ==
    LET after_data(data) ==
            LET reg == data.c.r[register]
                result == (reg + 256 - data.ret) % 256
                p == set(set(set(data.c.r.processor_status, CARRY, reg >= data.ret),
                             ZERO, reg = data.ret),
                         NEGATIVE, BitAnd(result, 128) /= 0)
            IN  [data.c EXCEPT !.r.processor_status = p]
        after_address(address) == after_data(mread(address.c, address.ret, env))
    IN  after_address(get_address(mode, c, env))

\* break_instr: nothing happens unless INTERRUPT is set
break_instr(c, env) ==
    LET pc == c.r.program_counter
        after_high(low, high) ==
            [high.c EXCEPT !.r.program_counter = from_le_bytes(low.ret, high.ret)]
        after_low(low) == after_high(low, mread(low.c, 65535, env))
        after_status(c3) ==
            after_low(mread([c3 EXCEPT !.r.processor_status = remove(@, INTERRUPT)],
                            65534, env))
        after_pc(c2) == after_status(push_stack(c2, c2.r.processor_status))
    IN  IF contains(c.r.processor_status, INTERRUPT)
        THEN after_pc(push_stack(push_stack(c, pc \div 256), pc % 256))
        ELSE c

\* return_from_interrupt popping the high byte of PC before the low byte
return_from_interrupt_high_first(c, env) ==
    LET after_lower_pc(upper_pc, lower_pc) ==
            [lower_pc.c EXCEPT
                !.r.program_counter = from_le_bytes(lower_pc.ret, upper_pc.ret)]
        after_upper_pc(upper_pc) == after_lower_pc(upper_pc, pop_stack(upper_pc.c, env))
        after_status(status) ==
            after_upper_pc(pop_stack([status.c EXCEPT !.r.processor_status = status.ret],
                                     env))
    IN  after_status(pop_stack(c, env))

return_from_interrupt(c, env) ==
    LET after_upper_pc(lower_pc, upper_pc) ==
            [upper_pc.c EXCEPT
                !.r.program_counter = from_le_bytes(lower_pc.ret, upper_pc.ret)]
        after_lower_pc(lower_pc) == after_upper_pc(lower_pc, pop_stack(lower_pc.c, env))
        after_status(status) ==
            after_lower_pc(pop_stack([status.c EXCEPT !.r.processor_status = status.ret],
                                     env))
    IN  after_status(pop_stack(c, env))

jump_subroutine(c, env) ==
    LET pc == add_u16(c, c.r.program_counter, 1, env)
        after_target(target) == [target.c EXCEPT !.r.program_counter = target.ret]
        after_push(c2) == after_target(get_absolute(c2, env))
    IN  after_push(push_stack(push_stack(pc.c, pc.ret \div 256), pc.ret % 256))

\* return_from_subroutine without the increment of the popped address
return_from_subroutine_as_popped(c, env) ==
    LET after_upper_pc(lower_pc, upper_pc) ==
            [upper_pc.c EXCEPT
                !.r.program_counter = from_le_bytes(lower_pc.ret, upper_pc.ret)]
        after_lower_pc(lower_pc) == after_upper_pc(lower_pc, pop_stack(lower_pc.c, env))
    IN  after_lower_pc(pop_stack(c, env))

return_from_subroutine(c, env) ==
    LET after_upper_pc(lower_pc, upper_pc) ==
            LET pc == add_u16(upper_pc.c, from_le_bytes(lower_pc.ret, upper_pc.ret),
                              1, env)
            IN  [pc.c EXCEPT !.r.program_counter = pc.ret]
        after_lower_pc(lower_pc) == after_upper_pc(lower_pc, pop_stack(lower_pc.c, env))
    IN  after_lower_pc(pop_stack(c, env))

\* ------------------------------------------------------------------------
\* Instruction dispatch (opmap.rs)
\* ------------------------------------------------------------------------
\* the entries of OP_MAP that are assigned a handler; every other entry is noop
OP_TABLE ==
       (0 :> "break_instr")
    @@ (1 :> "or_zero_page_x_indirect")
    @@ (5 :> "or_zero_page")
    @@ (6 :> "asl_zero_page")
    @@ (8 :> "push_status")
    @@ (9 :> "or_immediate")
    @@ (10 :> "asl_a")
    @@ (13 :> "or_absolute")
    @@ (14 :> "asl_absolute")
    @@ (16 :> "branch_on_negative_reset")
    @@ (17 :> "or_zero_page_y_indirect")
    @@ (21 :> "or_zero_page_x")
    @@ (22 :> "asl_zero_page_x")
    @@ (24 :> "clear_carry")
    @@ (25 :> "or_absolute_y")
    @@ (29 :> "or_absolute_x")
    @@ (30 :> "asl_absolute_x")
    @@ (32 :> "jump_subroutine")
    @@ (33 :> "and_zero_page_x_indirect")
    @@ (37 :> "and_zero_page")
    @@ (38 :> "rol_zero_page")
    @@ (40 :> "pull_status")
    @@ (41 :> "and_immediate")
    @@ (42 :> "rol_a")
    @@ (45 :> "and_absolute")
    @@ (46 :> "rol_absolute")
    @@ (48 :> "branch_on_negative_set")
    @@ (49 :> "and_zero_page_y_indirect")
    @@ (53 :> "and_zero_page_x")
    @@ (54 :> "rol_zero_page_x")
    @@ (56 :> "set_carry")
    @@ (57 :> "and_absolute_y")
    @@ (61 :> "and_absolute_x")
    @@ (62 :> "rol_absolute_x")
    @@ (64 :> "return_from_interrupt")
    @@ (70 :> "lsr_zero_page")
    @@ (72 :> "push_a")
    @@ (74 :> "lsr_a")
    @@ (76 :> "jump_absolute")
    @@ (78 :> "lsr_absolute")
    @@ (80 :> "branch_on_overflow_reset")
    @@ (86 :> "lsr_zero_page_x")
    @@ (88 :> "clear_interrupt")
    @@ (94 :> "lsr_absolute_x")
    @@ (96 :> "return_from_subroutine")
    @@ (97 :> "adc_zero_page_x_indirect")
    @@ (101 :> "adc_zero_page")
    @@ (102 :> "ror_zero_page")
    @@ (104 :> "pull_a")
    @@ (105 :> "adc_immediate")
    @@ (106 :> "ror_a")
    @@ (108 :> "jump_absolute_indirect")
    @@ (109 :> "adc_absolute")
    @@ (110 :> "ror_absolute")
    @@ (112 :> "branch_on_overflow_set")
    @@ (113 :> "adc_zero_page_y_indirect")
    @@ (117 :> "adc_zero_page_x")
    @@ (118 :> "ror_zero_page_x")
    @@ (120 :> "set_interrupt")
    @@ (121 :> "adc_absolute_y")
    @@ (125 :> "adc_absolute_x")
    @@ (126 :> "ror_absolute_x")
    @@ (129 :> "store_a_zero_page_x_indirect")
    @@ (132 :> "store_y_zero_page")
    @@ (133 :> "store_a_zero_page")
    @@ (134 :> "store_x_zero_page")
    @@ (136 :> "dec_y")
    @@ (138 :> "transfer_x_a")
    @@ (140 :> "store_y_absolute")
    @@ (141 :> "store_a_absolute")
    @@ (142 :> "store_x_absolute")
    @@ (144 :> "branch_on_carry_reset")
    @@ (145 :> "store_a_zero_page_y_indirect")
    @@ (148 :> "store_y_zero_page_x")
    @@ (149 :> "store_a_zero_page_x")
    @@ (150 :> "store_x_zero_page_y")
    @@ (152 :> "transfer_y_a")
    @@ (153 :> "store_a_absolute_y")
    @@ (154 :> "transfer_x_sp")
    @@ (157 :> "store_a_absolute_x")
    @@ (160 :> "load_y_immediate")
    @@ (161 :> "load_a_zero_page_x_indirect")
    @@ (162 :> "load_x_immediate")
    @@ (164 :> "load_y_zero_page")
    @@ (165 :> "load_a_zero_page")
    @@ (166 :> "load_x_zero_page")
    @@ (168 :> "transfer_a_y")
    @@ (169 :> "load_a_immediate")
    @@ (170 :> "transfer_a_x")
    @@ (172 :> "load_y_absolute")
    @@ (173 :> "load_a_absolute")
    @@ (174 :> "load_x_absolute")
    @@ (176 :> "branch_on_carry_set")
    @@ (177 :> "load_a_zero_page_y_indirect")
    @@ (180 :> "load_y_zero_page_x")
    @@ (181 :> "load_a_zero_page_x")
    @@ (182 :> "load_x_zero_page_y")
    @@ (184 :> "clear_overflow")
    @@ (185 :> "load_a_absolute_y")
    @@ (186 :> "transfer_sp_x")
    @@ (188 :> "load_y_absolute_x")
    @@ (189 :> "load_a_absolute_x")
    @@ (190 :> "load_x_absolute_y")
    @@ (198 :> "dec_zero_page")
    @@ (200 :> "inc_y")
    @@ (202 :> "dec_x")
    @@ (206 :> "dec_absolute")
    @@ (208 :> "branch_on_zero_reset")
    @@ (214 :> "dec_zero_page_x")
    @@ (216 :> "clear_decimal")
    @@ (222 :> "dec_absolute_x")
    @@ (225 :> "sbc_zero_page_x_indirect")
    @@ (229 :> "sbc_zero_page")
    @@ (230 :> "inc_zero_page")
    @@ (232 :> "inc_x")
    @@ (233 :> "sbc_immediate")
    @@ (237 :> "sbc_absolute")
    @@ (238 :> "inc_absolute")
    @@ (240 :> "branch_on_zero_set")
    @@ (241 :> "sbc_zero_page_y_indirect")
    @@ (245 :> "sbc_zero_page_x")
    @@ (246 :> "inc_zero_page_x")
    @@ (248 :> "set_decimal")
    @@ (249 :> "sbc_absolute_y")
    @@ (253 :> "sbc_absolute_x")
    @@ (254 :> "inc_absolute_x")

\* OP_MAP[opcode]: the name of the handler the opcode is dispatched to
OP_MAP(opcode) == IF opcode \in DOMAIN OP_TABLE THEN OP_TABLE[opcode] ELSE "noop"

\* the handlers of impl CPU: the macro (or function) that defines each one and
\* the arguments the macro was instantiated with
HANDLERS ==
       ("transfer_a_x" :> [gen |-> "transfer_gen", a |-> "accumulator", b |-> "idx_register_x"])
    @@ ("transfer_x_a" :> [gen |-> "transfer_gen", a |-> "idx_register_x", b |-> "accumulator"])
    @@ ("transfer_a_y" :> [gen |-> "transfer_gen", a |-> "accumulator", b |-> "idx_register_y"])
    @@ ("transfer_y_a" :> [gen |-> "transfer_gen", a |-> "idx_register_y", b |-> "accumulator"])
    @@ ("transfer_sp_x" :> [gen |-> "transfer_gen", a |-> "stack_pointer", b |-> "idx_register_x"])
    @@ ("load_a_immediate" :> [gen |-> "load_gen", a |-> "immediate", b |-> "accumulator"])
    @@ ("load_a_absolute" :> [gen |-> "load_gen", a |-> "absolute", b |-> "accumulator"])
    @@ ("load_a_absolute_x" :> [gen |-> "load_gen", a |-> "absolute_x", b |-> "accumulator"])
    @@ ("load_a_absolute_y" :> [gen |-> "load_gen", a |-> "absolute_y", b |-> "accumulator"])
    @@ ("load_a_zero_page" :> [gen |-> "load_gen", a |-> "zero_page", b |-> "accumulator"])
    @@ ("load_a_zero_page_x" :> [gen |-> "load_gen", a |-> "zero_page_x", b |-> "accumulator"])
    @@ ("load_a_zero_page_x_indirect" :> [gen |-> "load_gen", a |-> "zero_page_x_indirect", b |-> "accumulator"])
    @@ ("load_a_zero_page_y_indirect" :> [gen |-> "load_gen", a |-> "zero_page_y_indirect", b |-> "accumulator"])
    @@ ("load_x_immediate" :> [gen |-> "load_gen", a |-> "immediate", b |-> "idx_register_x"])
    @@ ("load_x_absolute" :> [gen |-> "load_gen", a |-> "absolute", b |-> "idx_register_x"])
    @@ ("load_x_absolute_y" :> [gen |-> "load_gen", a |-> "absolute_y", b |-> "idx_register_x"])
    @@ ("load_x_zero_page" :> [gen |-> "load_gen", a |-> "zero_page", b |-> "idx_register_x"])
    @@ ("load_x_zero_page_y" :> [gen |-> "load_gen", a |-> "zero_page_y", b |-> "idx_register_x"])
    @@ ("load_y_immediate" :> [gen |-> "load_gen", a |-> "immediate", b |-> "idx_register_y"])
    @@ ("load_y_absolute" :> [gen |-> "load_gen", a |-> "absolute", b |-> "idx_register_y"])
    @@ ("load_y_absolute_x" :> [gen |-> "load_gen", a |-> "absolute_x", b |-> "idx_register_y"])
    @@ ("load_y_zero_page" :> [gen |-> "load_gen", a |-> "zero_page", b |-> "idx_register_y"])
    @@ ("load_y_zero_page_x" :> [gen |-> "load_gen", a |-> "zero_page_x", b |-> "idx_register_y"])
    @@ ("branch_on_zero_set" :> [gen |-> "branch_gen", a |-> ZERO, b |-> TRUE])
    @@ ("branch_on_zero_reset" :> [gen |-> "branch_gen", a |-> ZERO, b |-> FALSE])
    @@ ("branch_on_carry_set" :> [gen |-> "branch_gen", a |-> CARRY, b |-> TRUE])
    @@ ("branch_on_carry_reset" :> [gen |-> "branch_gen", a |-> CARRY, b |-> FALSE])
    @@ ("branch_on_negative_set" :> [gen |-> "branch_gen", a |-> NEGATIVE, b |-> TRUE])
    @@ ("branch_on_negative_reset" :> [gen |-> "branch_gen", a |-> NEGATIVE, b |-> FALSE])
    @@ ("branch_on_overflow_set" :> [gen |-> "branch_gen", a |-> OVERFLOW, b |-> TRUE])
    @@ ("branch_on_overflow_reset" :> [gen |-> "branch_gen", a |-> OVERFLOW, b |-> FALSE])
    @@ ("store_a_absolute" :> [gen |-> "store_gen", a |-> "absolute", b |-> "accumulator"])
    @@ ("store_a_absolute_x" :> [gen |-> "store_gen", a |-> "absolute_x", b |-> "accumulator"])
    @@ ("store_a_absolute_y" :> [gen |-> "store_gen", a |-> "absolute_y", b |-> "accumulator"])
    @@ ("store_a_zero_page" :> [gen |-> "store_gen", a |-> "zero_page", b |-> "accumulator"])
    @@ ("store_a_zero_page_x" :> [gen |-> "store_gen", a |-> "zero_page_x", b |-> "accumulator"])
    @@ ("store_a_zero_page_y" :> [gen |-> "store_gen", a |-> "zero_page_y", b |-> "accumulator"])
    @@ ("store_a_zero_page_x_indirect" :> [gen |-> "store_gen", a |-> "zero_page_x_indirect", b |-> "accumulator"])
    @@ ("store_a_zero_page_y_indirect" :> [gen |-> "store_gen", a |-> "zero_page_y_indirect", b |-> "accumulator"])
    @@ ("store_x_absolute" :> [gen |-> "store_gen", a |-> "absolute", b |-> "idx_register_x"])
    @@ ("store_x_zero_page" :> [gen |-> "store_gen", a |-> "zero_page", b |-> "idx_register_x"])
    @@ ("store_x_zero_page_y" :> [gen |-> "store_gen", a |-> "zero_page_y", b |-> "idx_register_x"])
    @@ ("store_y_absolute" :> [gen |-> "store_gen", a |-> "absolute", b |-> "idx_register_y"])
    @@ ("store_y_zero_page" :> [gen |-> "store_gen", a |-> "zero_page", b |-> "idx_register_y"])
    @@ ("store_y_zero_page_x" :> [gen |-> "store_gen", a |-> "zero_page_x", b |-> "idx_register_y"])
    @@ ("or_immediate" :> [gen |-> "logic_gen", a |-> "immediate", b |-> "or"])
    @@ ("or_absolute" :> [gen |-> "logic_gen", a |-> "absolute", b |-> "or"])
    @@ ("or_absolute_x" :> [gen |-> "logic_gen", a |-> "absolute_x", b |-> "or"])
    @@ ("or_absolute_y" :> [gen |-> "logic_gen", a |-> "absolute_y", b |-> "or"])
    @@ ("or_zero_page" :> [gen |-> "logic_gen", a |-> "zero_page", b |-> "or"])
    @@ ("or_zero_page_x" :> [gen |-> "logic_gen", a |-> "zero_page_x", b |-> "or"])
    @@ ("or_zero_page_x_indirect" :> [gen |-> "logic_gen", a |-> "zero_page_x_indirect", b |-> "or"])
    @@ ("or_zero_page_y_indirect" :> [gen |-> "logic_gen", a |-> "zero_page_y_indirect", b |-> "or"])
    @@ ("exclusive_or_immediate" :> [gen |-> "logic_gen", a |-> "immediate", b |-> "eor"])
    @@ ("exclusive_or_absolute" :> [gen |-> "logic_gen", a |-> "absolute", b |-> "eor"])
    @@ ("exclusive_or_absolute_x" :> [gen |-> "logic_gen", a |-> "absolute_x", b |-> "eor"])
    @@ ("exclusive_or_absolute_y" :> [gen |-> "logic_gen", a |-> "absolute_y", b |-> "eor"])
    @@ ("exclusive_or_zero_page" :> [gen |-> "logic_gen", a |-> "zero_page", b |-> "eor"])
    @@ ("exclusive_or_zero_page_x" :> [gen |-> "logic_gen", a |-> "zero_page_x", b |-> "eor"])
    @@ ("exclusive_or_zero_page_x_indirect" :> [gen |-> "logic_gen", a |-> "zero_page_x_indirect", b |-> "eor"])
    @@ ("exclusive_or_zero_page_y_indirect" :> [gen |-> "logic_gen", a |-> "zero_page_y_indirect", b |-> "eor"])
    @@ ("and_immediate" :> [gen |-> "logic_gen", a |-> "immediate", b |-> "and"])
    @@ ("and_absolute" :> [gen |-> "logic_gen", a |-> "absolute", b |-> "and"])
    @@ ("and_absolute_x" :> [gen |-> "logic_gen", a |-> "absolute_x", b |-> "and"])
    @@ ("and_absolute_y" :> [gen |-> "logic_gen", a |-> "absolute_y", b |-> "and"])
    @@ ("and_zero_page" :> [gen |-> "logic_gen", a |-> "zero_page", b |-> "and"])
    @@ ("and_zero_page_x" :> [gen |-> "logic_gen", a |-> "zero_page_x", b |-> "and"])
    @@ ("and_zero_page_x_indirect" :> [gen |-> "logic_gen", a |-> "zero_page_x_indirect", b |-> "and"])
    @@ ("and_zero_page_y_indirect" :> [gen |-> "logic_gen", a |-> "zero_page_y_indirect", b |-> "and"])
    @@ ("clear_carry" :> [gen |-> "clear_flag_gen", a |-> CARRY, b |-> 0])
    @@ ("clear_decimal" :> [gen |-> "clear_flag_gen", a |-> DECIMAL, b |-> 0])
    @@ ("clear_interrupt" :> [gen |-> "clear_flag_gen", a |-> INTERRUPT, b |-> 0])
    @@ ("clear_overflow" :> [gen |-> "clear_flag_gen", a |-> OVERFLOW, b |-> 0])
    @@ ("set_carry" :> [gen |-> "set_flag_gen", a |-> CARRY, b |-> 0])
    @@ ("set_decimal" :> [gen |-> "set_flag_gen", a |-> DECIMAL, b |-> 0])
    @@ ("set_interrupt" :> [gen |-> "set_flag_gen", a |-> INTERRUPT, b |-> 0])
    @@ ("adc_immediate" :> [gen |-> "add_with_carry_gen", a |-> "immediate", b |-> 0])
    @@ ("adc_absolute" :> [gen |-> "add_with_carry_gen", a |-> "absolute", b |-> 0])
    @@ ("adc_absolute_x" :> [gen |-> "add_with_carry_gen", a |-> "absolute_x", b |-> 0])
    @@ ("adc_absolute_y" :> [gen |-> "add_with_carry_gen", a |-> "absolute_y", b |-> 0])
    @@ ("adc_zero_page" :> [gen |-> "add_with_carry_gen", a |-> "zero_page", b |-> 0])
    @@ ("adc_zero_page_x" :> [gen |-> "add_with_carry_gen", a |-> "zero_page_x", b |-> 0])
    @@ ("adc_zero_page_x_indirect" :> [gen |-> "add_with_carry_gen", a |-> "zero_page_x_indirect", b |-> 0])
    @@ ("adc_zero_page_y_indirect" :> [gen |-> "add_with_carry_gen", a |-> "zero_page_y_indirect", b |-> 0])
    @@ ("sbc_immediate" :> [gen |-> "subtract_with_carry_gen", a |-> "immediate", b |-> 0])
    @@ ("sbc_absolute" :> [gen |-> "subtract_with_carry_gen", a |-> "absolute", b |-> 0])
    @@ ("sbc_absolute_x" :> [gen |-> "subtract_with_carry_gen", a |-> "absolute_x", b |-> 0])
    @@ ("sbc_absolute_y" :> [gen |-> "subtract_with_carry_gen", a |-> "absolute_y", b |-> 0])
    @@ ("sbc_zero_page" :> [gen |-> "subtract_with_carry_gen", a |-> "zero_page", b |-> 0])
    @@ ("sbc_zero_page_x" :> [gen |-> "subtract_with_carry_gen", a |-> "zero_page_x", b |-> 0])
    @@ ("sbc_zero_page_x_indirect" :> [gen |-> "subtract_with_carry_gen", a |-> "zero_page_x_indirect", b |-> 0])
    @@ ("sbc_zero_page_y_indirect" :> [gen |-> "subtract_with_carry_gen", a |-> "zero_page_y_indirect", b |-> 0])
    @@ ("inc_x" :> [gen |-> "inc_dec_gen", a |-> "idx_register_x", b |-> "inc"])
    @@ ("inc_y" :> [gen |-> "inc_dec_gen", a |-> "idx_register_y", b |-> "inc"])
    @@ ("dec_x" :> [gen |-> "inc_dec_gen", a |-> "idx_register_x", b |-> "dec"])
    @@ ("dec_y" :> [gen |-> "inc_dec_gen", a |-> "idx_register_y", b |-> "dec"])
    @@ ("inc_absolute" :> [gen |-> "inc_dec_mem_gen", a |-> "absolute", b |-> "inc"])
    @@ ("inc_absolute_x" :> [gen |-> "inc_dec_mem_gen", a |-> "absolute_x", b |-> "inc"])
    @@ ("inc_zero_page" :> [gen |-> "inc_dec_mem_gen", a |-> "zero_page", b |-> "inc"])
    @@ ("inc_zero_page_x" :> [gen |-> "inc_dec_mem_gen", a |-> "zero_page_x", b |-> "inc"])
    @@ ("dec_absolute" :> [gen |-> "inc_dec_mem_gen", a |-> "absolute", b |-> "dec"])
    @@ ("dec_absolute_x" :> [gen |-> "inc_dec_mem_gen", a |-> "absolute_x", b |-> "dec"])
    @@ ("dec_zero_page" :> [gen |-> "inc_dec_mem_gen", a |-> "zero_page", b |-> "dec"])
    @@ ("dec_zero_page_x" :> [gen |-> "inc_dec_mem_gen", a |-> "zero_page_x", b |-> "dec"])
    @@ ("asl_zero_page" :> [gen |-> "shift_mem_gen", a |-> "zero_page", b |-> "asl"])
    @@ ("asl_zero_page_x" :> [gen |-> "shift_mem_gen", a |-> "zero_page_x", b |-> "asl"])
    @@ ("asl_absolute" :> [gen |-> "shift_mem_gen", a |-> "absolute", b |-> "asl"])
    @@ ("asl_absolute_x" :> [gen |-> "shift_mem_gen", a |-> "absolute_x", b |-> "asl"])
    @@ ("rol_zero_page" :> [gen |-> "shift_mem_gen", a |-> "zero_page", b |-> "rol"])
    @@ ("rol_zero_page_x" :> [gen |-> "shift_mem_gen", a |-> "zero_page_x", b |-> "rol"])
    @@ ("rol_absolute" :> [gen |-> "shift_mem_gen", a |-> "absolute", b |-> "rol"])
    @@ ("rol_absolute_x" :> [gen |-> "shift_mem_gen", a |-> "absolute_x", b |-> "rol"])
    @@ ("lsr_zero_page" :> [gen |-> "shift_mem_gen", a |-> "zero_page", b |-> "lsr"])
    @@ ("lsr_zero_page_x" :> [gen |-> "shift_mem_gen", a |-> "zero_page_x", b |-> "lsr"])
    @@ ("lsr_absolute" :> [gen |-> "shift_mem_gen", a |-> "absolute", b |-> "lsr"])
    @@ ("lsr_absolute_x" :> [gen |-> "shift_mem_gen", a |-> "absolute_x", b |-> "lsr"])
    @@ ("ror_zero_page" :> [gen |-> "shift_mem_gen", a |-> "zero_page", b |-> "ror"])
    @@ ("ror_zero_page_x" :> [gen |-> "shift_mem_gen", a |-> "zero_page_x", b |-> "ror"])
    @@ ("ror_absolute" :> [gen |-> "shift_mem_gen", a |-> "absolute", b |-> "ror"])
    @@ ("ror_absolute_x" :> [gen |-> "shift_mem_gen", a |-> "absolute_x", b |-> "ror"])
    @@ ("bit_absolute" :> [gen |-> "bit_test_gen", a |-> "absolute", b |-> 0])
    @@ ("bit_zero_page" :> [gen |-> "bit_test_gen", a |-> "zero_page", b |-> 0])
    @@ ("cmp_immediate" :> [gen |-> "compare_gen", a |-> "accumulator", b |-> "immediate"])
    @@ ("cmp_absolute" :> [gen |-> "compare_gen", a |-> "accumulator", b |-> "absolute"])
    @@ ("cmp_absolute_x" :> [gen |-> "compare_gen", a |-> "accumulator", b |-> "absolute_x"])
    @@ ("cmp_absolute_y" :> [gen |-> "compare_gen", a |-> "accumulator", b |-> "absolute_y"])
    @@ ("cmp_zero_page" :> [gen |-> "compare_gen", a |-> "accumulator", b |-> "zero_page"])
    @@ ("cmp_zero_page_x" :> [gen |-> "compare_gen", a |-> "accumulator", b |-> "zero_page_x"])
    @@ ("cmp_zero_page_x_indirect" :> [gen |-> "compare_gen", a |-> "accumulator", b |-> "zero_page_x_indirect"])
    @@ ("cmp_zero_page_y_indirect" :> [gen |-> "compare_gen", a |-> "accumulator", b |-> "zero_page_y_indirect"])
    @@ ("cpx_immediate" :> [gen |-> "compare_gen", a |-> "idx_register_x", b |-> "immediate"])
    @@ ("cpx_absolute" :> [gen |-> "compare_gen", a |-> "idx_register_x", b |-> "absolute"])
    @@ ("cpx_zero_page" :> [gen |-> "compare_gen", a |-> "idx_register_x", b |-> "zero_page"])
    @@ ("cpy_immediate" :> [gen |-> "compare_gen", a |-> "idx_register_y", b |-> "immediate"])
    @@ ("cpy_absolute" :> [gen |-> "compare_gen", a |-> "idx_register_y", b |-> "absolute"])
    @@ ("cpy_zero_page" :> [gen |-> "compare_gen", a |-> "idx_register_y", b |-> "zero_page"])
    @@ ("asl_a" :> [gen |-> "shift_a", a |-> "asl", b |-> 0])
    @@ ("lsr_a" :> [gen |-> "shift_a", a |-> "lsr", b |-> 0])
    @@ ("ror_a" :> [gen |-> "shift_a", a |-> "ror", b |-> 0])
    @@ ("rol_a" :> [gen |-> "shift_a", a |-> "rol", b |-> 0])
    @@ ("noop" :> [gen |-> "noop", a |-> 0, b |-> 0])
    @@ ("transfer_x_sp" :> [gen |-> "transfer_x_sp", a |-> 0, b |-> 0])
    @@ ("push_a" :> [gen |-> "push_a", a |-> 0, b |-> 0])
    @@ ("push_status" :> [gen |-> "push_status", a |-> 0, b |-> 0])
    @@ ("pull_a" :> [gen |-> "pull_a", a |-> 0, b |-> 0])
    @@ ("pull_status" :> [gen |-> "pull_status", a |-> 0, b |-> 0])
    @@ ("break_instr" :> [gen |-> "break_instr", a |-> 0, b |-> 0])
    @@ ("return_from_interrupt" :> [gen |-> "return_from_interrupt", a |-> 0, b |-> 0])
    @@ ("jump_absolute" :> [gen |-> "jump_absolute", a |-> 0, b |-> 0])
    @@ ("jump_absolute_indirect" :> [gen |-> "jump_absolute_indirect", a |-> 0, b |-> 0])
    @@ ("jump_subroutine" :> [gen |-> "jump_subroutine", a |-> 0, b |-> 0])
    @@ ("return_from_subroutine" :> [gen |-> "return_from_subroutine", a |-> 0, b |-> 0])


\* i(self): the handler called with the arguments of its macro instantiation
call(name, c, env) ==
    LET run(h) ==
            CASE h.gen = "noop" -> noop(c)
              [] h.gen = "transfer_gen" -> transfer_gen(c, h.a, h.b)
              [] h.gen = "transfer_x_sp" -> transfer_x_sp(c)
              [] h.gen = "load_gen" -> load_gen(c, h.a, h.b, env)
              [] h.gen = "store_gen" -> store_gen(c, h.a, h.b, env)
              [] h.gen = "logic_gen" -> logic_gen(c, h.a, h.b, env)
              [] h.gen = "branch_gen" -> branch_gen(c, h.a, h.b, env)
              [] h.gen = "clear_flag_gen" -> clear_flag_gen(c, h.a)
              [] h.gen = "set_flag_gen" -> set_flag_gen(c, h.a)
              [] h.gen = "add_with_carry_gen" -> add_with_carry_gen(c, h.a, env)
              [] h.gen = "subtract_with_carry_gen" -> subtract_with_carry_gen(c, h.a, env)
              [] h.gen = "inc_dec_gen" -> inc_dec_gen(c, h.a, h.b)
              [] h.gen = "inc_dec_mem_gen" -> inc_dec_mem_gen(c, h.a, h.b, env)
              [] h.gen = "shift_mem_gen" -> shift_mem_gen(c, h.a, h.b, env)
              [] h.gen = "shift_a" -> shift_a(c, h.a)
              [] h.gen = "bit_test_gen" -> bit_test_gen(c, h.a, env)
              [] h.gen = "compare_gen" -> compare_gen(c, h.a, h.b, env)
              [] h.gen = "push_a" -> push_a(c)
              [] h.gen = "push_status" -> push_status(c)
              [] h.gen = "pull_a" -> pull_a(c, env)
              [] h.gen = "pull_status" -> pull_status(c, env)
              [] h.gen = "break_instr" -> break_instr(c, env)
              [] h.gen = "return_from_interrupt" -> return_from_interrupt(c, env)
              [] h.gen = "jump_absolute" -> jump_absolute(c, env)
              [] h.gen = "jump_absolute_indirect" -> jump_absolute_indirect(c, env)
              [] h.gen = "jump_subroutine" -> jump_subroutine(c, env)
              [] h.gen = "return_from_subroutine" -> return_from_subroutine(c, env)
    IN  run(HANDLERS[name])

\* CPU::advance: fetch the opcode, step the program counter, run the handler
CPU_advance(c, env) ==
    LET after_opcode(opcode) ==
            call(OP_MAP(opcode.ret), advance_pc(opcode.c, 1, env), env)
    IN  after_opcode(mread(c, c.r.program_counter, env))

\* ------------------------------------------------------------------------
\* Inputs
\* ------------------------------------------------------------------------
Data == {0, 37, 228}

\* addresses driven in the bus specification
RamAddrs == {0, 2048, 2047, 8191}
ApuAddrs == {16384, 16392}
ExpansionAddrs == {16416, 24575}
SramAddrs == {24576, 32767}
RomAddrs == {32768, 49151, 49152, 65535}
BusAddrs == RamAddrs \cup {8192, 8194, 8197} \cup ApuAddrs
            \cup ExpansionAddrs \cup SramAddrs \cup RomAddrs

\* addresses driven in the PPU register specification: the eight registers
\* and mirrors of registers 2, 5 and 6
PpuAddrs == 8192..8199
PpuMirrorAddrs == {8202, 16381, 16382}
RegAddrs == PpuAddrs \cup PpuMirrorAddrs

\* addresses read in the PPU register specification: one per arm of PPU::read
\* (status, sprite RAM, VRAM, everything else) and the mirror of the status register
RegReadAddrs == {8192, 8194, 8196, 8199, 8202}

Cycles == {7, 342, 350}

\* bytes placed at `base`, base + 1, ... by memory.write (zero bytes are the
\* reset content of RAM)
At(base, bytes) ==
    [i \in {base + k - 1 : k \in {j \in 1..Len(bytes) : bytes[j] /= 0}} |->
        bytes[i - base + 1]]

\* where the CPU specification places code in built-in RAM, the zero-page
\* cell its instructions address, and the subroutine / interrupt handler
CodeBase == 512
ZpCell == 16
Handler == 768

CpuBytes == {0, 1, 127, 128, 255}
ZpBytes == {0, 1, 128, 255}

\* opcodes with an immediate operand: ADC, SBC, LDX, LDY, CMP, CPX, CPY
ImmediateOps == {105, 233, 162, 160, 201, 224, 192}
\* opcodes with a zero-page operand: ADC, SBC, INC, DEC, ASL, LSR, ROL, ROR
ZeroPageOps == {101, 229, 230, 198, 6, 70, 38, 102}
\* one-byte opcodes: TAX, TXA, TAY, TYA, TSX, TXS, INX, INY, DEX, DEY
ImpliedOps == {170, 138, 168, 152, 186, 154, 232, 200, 202, 136}
\* ASL A, LSR A, ROL A, ROR A
ShiftAOps == {10, 74, 42, 106}
\* BPL, BMI, BVC, BVS, BCC, BCS, BNE, BEQ, their offsets, and the status
\* bytes they test: nothing set, one of C, Z, V, N set, all four set
BranchOpcodes == {16, 48, 80, 112, 144, 176, 208, 240}
BranchOffsets == {0, 5, 127, 128, 250, 255}
BranchStatus == {0, 1, 2, 64, 128, 195}
\* PHA, PHP and PLA, PLP
PushOps == {72, 8}
PullOps == {104, 40}

\* every index of OP_MAP
Opcodes == 0..255

\* the registers a scenario sets through the public fields of CPU
Registers(a, x, y, sp, p) ==
    [program_counter |-> CodeBase, stack_pointer |-> sp, accumulator |-> a,
     idx_register_x |-> x, idx_register_y |-> y, processor_status |-> p]

\* the (zp,X) and (zp),Y forms of ORA, AND, ADC, STA, LDA and SBC, and a
\* pointer whose low byte is in the last cell of the zero page: its high byte
\* is in cell 0 (0x03) and the first cell of the stack page holds 0x02
IndirectOps == {1, 17, 33, 49, 97, 113, 129, 145, 161, 177, 225, 241}
PointerAtFF == (255 :> 52) @@ (0 :> 3) @@ (256 :> 2) @@ (820 :> 119) @@ (564 :> 85)

\* processor_status values: nothing set; N, V, Z and C set; I and UNUSED set
StatusBytes == {0, 195, 36}

\* what the CPU specification starts from: the bytes written to built-in RAM
\* and the registers.  One instruction at CodeBase (immediate, zero-page,
\* implied), pushes followed by as many pulls, JSR Handler with RTS at
\* Handler, BRK with RTI at Handler and at address 0, and every opcode with
\* the operand bytes ZpCell, 0
Scenarios ==
    {[code |-> At(CodeBase, <<o, m>>), r |-> Registers(a, xy[1], xy[2], 255, p)] :
        o \in ImmediateOps, m \in CpuBytes, a \in {0, 1, 128, 255},
        xy \in {<<0, 129>>, <<128, 0>>}, p \in StatusBytes}
    \cup
    {[code |-> At(CodeBase, <<o, ZpCell>>) @@ At(ZpCell, <<m>>),
      r |-> Registers(a, 2, 0, 255, p)] :
        o \in ZeroPageOps, m \in ZpBytes, a \in {0, 128, 255}, p \in StatusBytes}
    \cup
    {[code |-> At(CodeBase, <<o>>), r |-> Registers(a, x, y, sp, p)] :
        o \in ImpliedOps, a \in {0, 1, 128}, x \in {0, 2, 128}, y \in {0, 129},
        sp \in {0, 255}, p \in {0, 195}}
    \cup
    {[code |-> At(CodeBase, <<o1, o2>>), r |-> Registers(a, 2, 0, sp, p)] :
        o1 \in PushOps, o2 \in PullOps, a \in {0, 1, 128},
        sp \in {0, 253, 255}, p \in StatusBytes}
    \cup
    {[code |-> At(CodeBase, <<o1, o2, o3, o4>>), r |-> Registers(a, 2, 0, sp, p)] :
        o1 \in PushOps, o2 \in PushOps, o3 \in PullOps, o4 \in PullOps,
        a \in {0, 1, 128}, sp \in {0, 253, 255}, p \in StatusBytes}
    \cup
    {[code |-> At(CodeBase, <<32, Handler % 256, Handler \div 256>>) @@ At(Handler, <<96>>),
      r |-> Registers(1, 2, 0, sp, p)] : sp \in {0, 1, 253, 255}, p \in StatusBytes}
    \cup
    {[code |-> At(Handler, <<64>>) @@ At(0, <<64>>), r |-> Registers(a, 2, 129, sp, p)] :
        a \in {0, 128}, sp \in {0, 1, 2, 253, 255}, p \in {36, 199, 195}}
    \cup
    {[code |-> At(CodeBase, <<o, ZpCell, 0>>) @@ At(ZpCell, <<1>>),
      r |-> Registers(1, 2, 0, 255, p)] : o \in Opcodes, p \in {0, 36}}
    \cup
    {[code |-> At(CodeBase, <<o>>), r |-> Registers(a, 2, 0, 255, p)] :
        o \in ShiftAOps, a \in CpuBytes, p \in {0, 1, 195}}
    \cup
    {[code |-> At(base, <<o, m>>),
      r |-> [Registers(1, 2, 0, 255, p) EXCEPT !.program_counter = base]] :
        o \in BranchOpcodes, m \in BranchOffsets, p \in BranchStatus,
        base \in {2, CodeBase}}
    \cup
    {[code |-> At(CodeBase, <<o, bx[1]>>) @@ PointerAtFF,
      r |-> Registers(1, bx[2], bx[2], 255, 0)] :
        o \in IndirectOps, bx \in {<<255, 0>>, <<253, 2>>, <<254, 1>>}}

\* the program handed to CPU::with_program when the code under test is in RAM:
\* the interrupt vector at 0xFFFE/0xFFFF points at Handler
VectorProgram == At(65534 - PROGRAM_ROM, <<Handler % 256, Handler \div 256>>)

\* instructions at the top of the address space and operands that index past
\* it: an opcode at 0xFFFF (NOP, INX, LDA #) with the next byte at 0x0000;
\* LDA absolute at 0xFFFE with its low operand byte at 0xFFFF and its high
\* byte at 0x0000; LDA $FFFF,X and LDA (ZpCell),Y with the pointer 0xFFFF
WrapScenarios ==
    {[rom |-> At(65535 - PROGRAM_ROM, <<o>>), code |-> At(0, <<m>>),
      r |-> [Registers(1, 2, 0, 255, 0) EXCEPT !.program_counter = 65535]] :
        o \in {234, 232, 169}, m \in {1, 128}}
    \cup
    {[rom |-> At(65534 - PROGRAM_ROM, <<173, ZpCell>>), code |-> At(ZpCell, <<m>>),
      r |-> [Registers(1, 2, 0, 255, 0) EXCEPT !.program_counter = 65534]] :
        m \in CpuBytes}
    \cup
    {[rom |-> VectorProgram, code |-> At(CodeBase, <<189, 255, 255>>) @@ At(1, <<m>>),
      r |-> Registers(1, 2, 0, 255, 0)] : m \in CpuBytes}
    \cup
    {[rom |-> VectorProgram,
      code |-> At(CodeBase, <<177, ZpCell>>) @@ At(ZpCell, <<255, 255>>) @@ At(1, <<m>>),
      r |-> Registers(1, 0, 2, 255, 0)] : m \in CpuBytes}

\* programs of the test suite, run from PROGRAM_ROM as CPU::with_program leaves them:
\* LDA #$10; ADC #$20 and LDA #$11; PHA; LDA #$22; PHA; PLA; PLA
RomPrograms ==
    { At(0, <<169, 16, 105, 32>>), At(0, <<169, 17, 72, 169, 34, 72, 104, 104>>) }

\* the record of an operation: what it was, what it returned, the latch before
\* it, and whether the operation before it was the same one on the same address
NoOp == [kind |-> "none", addr |-> 0, data |-> 0, ret |-> 0, shift |-> 8,
         twice |-> FALSE]

\* ------------------------------------------------------------------------
\* State machine
\* ------------------------------------------------------------------------
Init ==
    /\ \E m \in Constructed :
          /\ ram = m.ram
          /\ battery_ram = m.battery_ram
          /\ program_rom = m.program_rom
          /\ active_program_1 = m.active_program_1
          /\ active_program_2 = m.active_program_2
          /\ ppu = m.ppu
          /\ cpu = IF m.active_program_1 = 0 THEN with_program ELSE from_file_nestest
    /\ fault = FALSE
    /\ last = NoOp
    /\ ops = 0

\* a bus write: memory.write(address, data)
Write(address, data) ==
    /\ ~fault
    /\ ops < MaxOps
    /\ LET w == Memory_write(Mem, address, data)
       IN  /\ fault' = w.fault
           /\ ram' = IF w.fault THEN ram ELSE w.mem.ram
           /\ battery_ram' = IF w.fault THEN battery_ram ELSE w.mem.battery_ram
           /\ ppu' = IF w.fault THEN ppu ELSE w.mem.ppu
    /\ last' = [kind |-> "write", addr |-> address, data |-> data, ret |-> 0,
                shift |-> ppu.byte_shift,
                twice |-> (last.kind = "write" /\ last.addr = address)]
    /\ ops' = ops + 1
    /\ UNCHANGED <<program_rom, active_program_1, active_program_2, cpu>>

\* a bus read: memory[address]
Read(address) ==
    /\ ~fault
    /\ ops < MaxOps
    /\ \E o \in Memory_index(Mem, address) :
          /\ fault' = o.fault
          /\ ppu' = IF o.fault THEN ppu ELSE o.mem.ppu
          /\ last' = [kind |-> "read", addr |-> address, data |-> 0, ret |-> o.ret,
                      shift |-> ppu.byte_shift,
                      twice |-> (last.kind = "read" /\ last.addr = address)]
    /\ ops' = ops + 1
    /\ UNCHANGED <<ram, battery_ram, program_rom, active_program_1, active_program_2, cpu>>

\* the driver advances the PPU: memory.ppu.advance(cycles, buf)
Advance(cycles) ==
    /\ ~fault
    /\ ops < MaxOps
    /\ LET r == PPU_advance(ppu, cycles)
       IN  /\ fault' = r.fault
           /\ ppu' = IF r.fault THEN ppu ELSE r.ppu
    /\ last' = [kind |-> "advance", addr |-> 0, data |-> cycles, ret |-> 0,
                shift |-> ppu.byte_shift, twice |-> (last.kind = "advance")]
    /\ ops' = ops + 1
    /\ UNCHANGED <<ram, battery_ram, program_rom, active_program_1, active_program_2, cpu>>

Next ==
    \/ \E a \in BusAddrs, d \in Data : Write(a, d)
    \/ \E a \in BusAddrs : Read(a)
    \/ \E c \in Cycles : Advance(c)

Spec == Init /\ [][Next]_vars

\* the same machine driven through the PPU register addresses
NextRegs ==
    \/ \E a \in RegAddrs, d \in Data : Write(a, d)
    \/ \E a \in RegReadAddrs : Read(a)
    \/ \E c \in Cycles : Advance(c)

SpecRegs == Init /\ [][NextRegs]_vars

\* ------------------------------------------------------------------------
\* The CPU specification: the machine stepped one instruction at a time
\* ------------------------------------------------------------------------
\* CPU::with_program(program) followed by writes to built-in RAM and to the
\* public register fields, CPU::with_program(program) alone,
\* CPU::from_file_nestest(image) alone, and CPU::from_file_nestest(image) with
\* the program counter moved to built-in RAM (all zero: BRK) and P = I | UNUSED
InitCpu ==
    /\ \/ \E t \in Scenarios :
             LET m == from_program(VectorProgram)
             IN  /\ ram = t.code
                 /\ battery_ram = m.battery_ram
                 /\ program_rom = m.program_rom
                 /\ active_program_1 = m.active_program_1
                 /\ active_program_2 = m.active_program_2
                 /\ ppu = m.ppu
                 /\ cpu = t.r
       \/ \E m \in {from_program(pr) : pr \in RomPrograms} \cup {from_file(im) : im \in Images} :
             /\ ram = m.ram
             /\ battery_ram = m.battery_ram
             /\ program_rom = m.program_rom
             /\ active_program_1 = m.active_program_1
             /\ active_program_2 = m.active_program_2
             /\ ppu = m.ppu
             /\ cpu = IF m.active_program_1 = 0 THEN with_program ELSE from_file_nestest
       \/ \E im \in Images :
             LET m == from_file(im)
             IN  /\ ram = m.ram
                 /\ battery_ram = m.battery_ram
                 /\ program_rom = m.program_rom
                 /\ active_program_1 = m.active_program_1
                 /\ active_program_2 = m.active_program_2
                 /\ ppu = m.ppu
                 /\ cpu = [from_file_nestest EXCEPT !.program_counter = CodeBase]
       \/ \E t \in WrapScenarios :
             LET m == from_program(t.rom)
             IN  /\ ram = t.code
                 /\ battery_ram = m.battery_ram
                 /\ program_rom = m.program_rom
                 /\ active_program_1 = m.active_program_1
                 /\ active_program_2 = m.active_program_2
                 /\ ppu = m.ppu
                 /\ cpu = t.r
    /\ fault = FALSE
    /\ last = [kind |-> "cpu", steps |-> << >>]
    /\ ops = 0

\* cpu.advance(): one instruction; `last.steps` records, for every instruction
\* executed so far, the handler run, the registers before and after it, the
\* bus accesses it made and whether it panicked
Step(env) ==
    /\ ~fault
    /\ ops < MaxSteps
    /\ LET executed(opcode, d) ==
               /\ fault' = d.fault
               /\ ram' = IF d.fault THEN ram ELSE d.mem.ram
               /\ battery_ram' = IF d.fault THEN battery_ram ELSE d.mem.battery_ram
               /\ ppu' = IF d.fault THEN ppu ELSE d.mem.ppu
               /\ cpu' = IF d.fault THEN cpu ELSE d.r
               /\ last' = [last EXCEPT !.steps = Append(@,
                              [name |-> IF opcode.c.fault THEN "none"
                                        ELSE OP_MAP(opcode.ret),
                               opcode |-> opcode.ret, pre |-> cpu,
                               post |-> IF d.fault THEN cpu ELSE d.r,
                               log |-> d.log, fault |-> d.fault,
                               overflow |-> d.wrapped])]
       IN  executed(mread(Machine(Mem, cpu), cpu.program_counter, env),
                    CPU_advance(Machine(Mem, cpu), env))
    /\ ops' = ops + 1
    /\ UNCHANGED <<program_rom, active_program_1, active_program_2>>

Dangles(address) ==
    /\ address >= PROGRAM_ROM
    /\ (IF address < PROGRAM_ROM_2 THEN active_program_1 ELSE active_program_2) = 0

\* the environments that can make the next instruction differ: the outcome of
\* dangling reads matters only when the instruction makes one, and overflow
\* checking only when an addition overflows
StepEnvs ==
    LET matter(d) ==
            IF \E i \in DOMAIN d.log : d.log[i].kind = "read" /\ Dangles(d.log[i].addr)
            THEN Envs
            ELSE {env \in Envs : env.dang = Intended /\ (env.overflow_checks => d.wrapped)}
    IN  matter(CPU_advance(Machine(Mem, cpu),
                           [dang |-> Intended, overflow_checks |-> FALSE]))

NextCpu == \E env \in StepEnvs : Step(env)

SpecCpu == InitCpu /\ [][NextCpu]_vars


\* ------------------------------------------------------------------------
\* Properties
\* ------------------------------------------------------------------------
\* the bus after the step
MemNext == [ram |-> ram', battery_ram |-> battery_ram', ppu |-> ppu']

\* address a selects PPU register k (0x2000..0x3FFF, mirrored every 8 bytes)
IsReg(a, k) == a >= 8192 /\ a < 16384 /\ a % 8 = k

\* RAM addresses observed: every mirror of cells 0, 1 and 0x7FF
RamProbe == {a \in 0..8191 : a % 2048 \in {0, 1, 2047}}

\* C1: for every built-in RAM address a, a read of a returns what a read of
\* a mod 0x0800 returns, and a byte just written to RAM is read back at all
\* four mirrors of the written address.
C1_RamMirror ==
    ~fault =>
        \A a \in RamProbe :
            \A o \in Memory_index(Mem, a), q \in Memory_index(Mem, a % 2048) :
                /\ ~o.fault /\ ~q.fault
                /\ o.ret = q.ret
                /\ (last.kind = "write" /\ last.addr < 8192
                        /\ last.addr % 2048 = a % 2048) => o.ret = last.data

C1_Witness ==
    /\ ~fault
    /\ last.kind = "write" /\ last.addr >= 2048 /\ last.addr < 8192 /\ last.data # 0
    /\ \A o \in Memory_index(Mem, last.addr % 2048) : o.ret = last.data

\* two addresses name the same stored byte of built-in RAM or save RAM
SameCell(w, a) ==
    \/ w < 8192 /\ a < 8192 /\ w % 2048 = a % 2048
    \/ w >= SRAM /\ w < PROGRAM_ROM /\ w = a

\* C2: a byte written to a built-in RAM address, or to a save-RAM address when
\* save RAM is present, is what a read of that address returns after the
\* write, and no later operation other than a write to that address or one of
\* its mirrors changes what the read returns.
C2_WriteReadBack ==
    [][ ~fault' =>
          \A a \in RamAddrs \cup (IF battery_ram.some THEN SramAddrs ELSE {}) :
              \A o \in Memory_index(MemNext, a) :
                  /\ ~o.fault
                  /\ IF last'.kind = "write" /\ SameCell(last'.addr, a)
                     THEN o.ret = last'.data
                     ELSE \A q \in Memory_index(Mem, a) : o.ret = q.ret ]_vars

C2_Witness ==
    /\ ~fault
    /\ battery_ram.some
    /\ last.kind = "read" /\ last.addr \in SramAddrs /\ last.ret # 0
    /\ ops = 3

\* a write to this address is discarded: expansion region, absent save RAM,
\* program ROM
Discarded(a) ==
    \/ a >= EXPANSION_ROM /\ a < SRAM
    \/ a >= SRAM /\ a < PROGRAM_ROM /\ ~battery_ram.some
    \/ a >= PROGRAM_ROM /\ a <= 65535

\* C3: a write to the expansion region, to absent save RAM or to program ROM
\* never faults and leaves the whole bus and PPU state (hence every later
\* read) unchanged; reads of the expansion region and of absent save RAM
\* return 0 without faulting.
C3_DiscardedWrites ==
    [][ /\ (last'.kind = "write" /\ Discarded(last'.addr)) =>
              /\ ~fault'
              /\ UNCHANGED <<ram, battery_ram, ppu, program_rom,
                             active_program_1, active_program_2>>
        /\ (last'.kind = "read" /\ last'.addr >= EXPANSION_ROM
                /\ last'.addr < PROGRAM_ROM /\ Discarded(last'.addr)) =>
              /\ ~fault'
              /\ last'.ret = 0 ]_vars

C3_Witness ==
    /\ ~fault
    /\ ~battery_ram.some
    /\ last.kind = "write" /\ last.addr \in SramAddrs /\ last.data # 0
    /\ ram # Zeroed

\* C4: a write of any byte to any address in 0x4000..0x401F never faults and
\* leaves built-in RAM, save RAM and all PPU state unchanged.
C4_ApuWritesIgnored ==
    [][ (last'.kind = "write" /\ last'.addr >= 16384 /\ last'.addr < EXPANSION_ROM) =>
            /\ ~fault'
            /\ UNCHANGED <<ram, battery_ram, ppu>> ]_vars

\* mirrors of the eight PPU registers observed: the first mirror of the even
\* registers and the last mirror of the odd ones
MirrorProbe == {8192 + 8 * (IF k % 2 = 0 THEN 1 ELSE 1023) + k : k \in 0..7}

\* C5: for every address a in 0x2000..0x3FFF and byte v, write(a, v) has the
\* same outcome (bus state, PPU state, fault) as write(0x2000 + (a mod 8), v)
\* from the same state.
C5_RegisterWriteMirror ==
    ~fault =>
        \A a \in MirrorProbe, v \in Data :
            Memory_write(Mem, a, v) = Memory_write(Mem, 8192 + (a % 8), v)

C5_Witness ==
    /\ ~fault
    /\ last.kind = "write" /\ last.addr = 16381 /\ last.shift = 8
    /\ last.data # 0 /\ ppu.x_scroll = last.data /\ ppu.byte_shift = 0

\* C6: after a read of the status register 0x2002 the latch expects the first
\* write: the next write to register 5 sets the X scroll and the next write
\* to register 6 sets the high byte of the VRAM address.
C6_StatusReadResetsLatch ==
    [][ /\ (last'.kind = "read" /\ last'.addr = 8194 /\ ~fault') =>
              ppu'.byte_shift = 8
        /\ (last.kind = "read" /\ last.addr = 8194 /\ last'.kind = "write" /\ ~fault') =>
              /\ IsReg(last'.addr, 5) => ppu'.x_scroll = last'.data
              /\ IsReg(last'.addr, 6) =>
                    ppu'.vram_address \div 256 = BitAnd(last'.data, 63) ]_vars

\* C7: from a reset latch, a first write x to register 5 changes x_scroll
\* only, and a second consecutive write y changes y_scroll only, leaving
\* x_scroll = x, y_scroll = y and the latch reset again.
C7_ScrollPair ==
    [][ (last'.kind = "write" /\ IsReg(last'.addr, 5) /\ ~fault') =>
            /\ ppu.byte_shift = 8 =>
                  /\ ppu'.x_scroll = last'.data
                  /\ ppu'.y_scroll = ppu.y_scroll
                  /\ ppu'.byte_shift # 8
            /\ (last.kind = "write" /\ IsReg(last.addr, 5) /\ last.shift = 8) =>
                  /\ ppu'.x_scroll = last.data
                  /\ ppu'.x_scroll = ppu.x_scroll
                  /\ ppu'.y_scroll = last'.data
                  /\ ppu'.byte_shift = 8 ]_vars

C7_Witness ==
    /\ ~fault
    /\ last.kind = "write" /\ IsReg(last.addr, 5) /\ last.twice /\ last.shift = 0
    /\ ppu.x_scroll = 37 /\ ppu.y_scroll = 228 /\ ppu.byte_shift = 8
    /\ ops = 2

\* C8: from a reset latch, two consecutive writes h then l to register 6 set
\* the VRAM address to h * 256 + l within the 14-bit range (any
\* auto-increment of 1 or 32 per write or per pair aside).
C8_VramAddressPair ==
    [][ (/\ last.kind = "write" /\ IsReg(last.addr, 6) /\ last.shift = 8
         /\ last'.kind = "write" /\ IsReg(last'.addr, 6) /\ ~fault') =>
            (ppu'.vram_address + 16384 - BitAnd(last.data * 256 + last'.data, 16383))
                % 16384 \in {0, 1, 2, 32, 64} ]_vars

\* C9: a byte written through register 4 (sprite RAM at the selected pointer)
\* is returned by a read of 0x2004, and a byte written through register 7
\* (VRAM at the selected address) is returned by a read of 0x2007, without
\* faulting.
C9_PpuMemoryRoundTrip ==
    [][ (last.kind = "write" /\ last'.kind = "read") =>
            /\ (IsReg(last.addr, 4) /\ last'.addr = 8196) =>
                  (~fault' /\ last'.ret = last.data)
            /\ (IsReg(last.addr, 7) /\ last'.addr = 8199) =>
                  (~fault' /\ last'.ret = last.data) ]_vars

\* C10: two back-to-back reads of the status register 0x2002 return the same
\* VBlank, sprite-0-hit and overflow bits, and the second read leaves the
\* latch as the first left it.
C10_StatusReadIdempotent ==
    [][ (/\ last.kind = "read" /\ last.addr = 8194
         /\ last'.kind = "read" /\ last'.addr = 8194) =>
            /\ ~fault'
            /\ BitAnd(last'.ret, VBlankIndicator + SpriteCollision + ScanlineSpriteCount)
                 = BitAnd(last.ret, VBlankIndicator + SpriteCollision + ScanlineSpriteCount)
            /\ ppu'.byte_shift = ppu.byte_shift ]_vars

C10_Witness ==
    /\ ~fault
    /\ last.kind = "read" /\ last.addr = 8194 /\ last.twice
    /\ ppu.byte_shift = 8
    /\ ppu.x_scroll # 0
    /\ ops = 3

\* ------------------------------------------------------------------------
\* The PPU specification: the frame machine driven by the emulator's loop
\* ------------------------------------------------------------------------
\* cycle budgets of one advance call: a single cycle, one 8-pixel burst, a
\* scanline, and a scanline and a cycle
PpuCycles == {1, 8, 341, 342}
\* bytes written to control register 1: each selects another name table
ControlData == {0, 1, 3}

\* Memory::from_program / Memory::from_file, before any advance
InitPpu ==
    /\ \E m \in Constructed :
          /\ ram = m.ram
          /\ battery_ram = m.battery_ram
          /\ program_rom = m.program_rom
          /\ active_program_1 = m.active_program_1
          /\ active_program_2 = m.active_program_2
          /\ ppu = m.ppu
          /\ cpu = IF m.active_program_1 = 0 THEN with_program ELSE from_file_nestest
          /\ last = [kind |-> "ppu", op |-> "none", cycles |-> 0, ret |-> 0,
                     pre |-> m.ppu.state, total |-> 0, bursts |-> {}]
    /\ fault = FALSE
    /\ ops = 0

\* memory.ppu.advance(cycles, buf); `last.pre` is the phase before the call,
\* `last.total` the sum of the budgets of all calls so far and `last.bursts`
\* what the call rendered into buf
Frame_advance(cycles) ==
    /\ ~fault
    /\ LET advanced(r) ==
               /\ fault' = r.fault
               /\ ppu' = IF r.fault THEN ppu ELSE r.ppu
               /\ last' = [kind |-> "ppu", op |-> "advance", cycles |-> cycles,
                           ret |-> 0, pre |-> ppu.state,
                           total |-> last.total + cycles, bursts |-> r.bursts]
       IN  advanced(PPU_advance(ppu, cycles))
    /\ UNCHANGED <<ram, battery_ram, program_rom, active_program_1, active_program_2,
                   cpu, ops>>

\* memory[0x2002]: a read of the status register
Status_read ==
    /\ ~fault
    /\ \E o \in Memory_index(Mem, 8194) :
          /\ fault' = o.fault
          /\ ppu' = IF o.fault THEN ppu ELSE o.mem.ppu
          /\ last' = [kind |-> "ppu", op |-> "status", cycles |-> 0, ret |-> o.ret,
                      pre |-> ppu.state, total |-> last.total, bursts |-> {}]
    /\ UNCHANGED <<ram, battery_ram, program_rom, active_program_1, active_program_2,
                   cpu, ops>>

\* memory.write(0x2000, data): a write of control register 1
Control_write(data) ==
    /\ ~fault
    /\ LET written(w) ==
               /\ fault' = w.fault
               /\ ppu' = IF w.fault THEN ppu ELSE w.mem.ppu
       IN  written(Memory_write(Mem, 8192, data))
    /\ last' = [kind |-> "ppu", op |-> "control", cycles |-> 0, ret |-> 0,
                pre |-> ppu.state, total |-> last.total, bursts |-> {}]
    /\ UNCHANGED <<ram, battery_ram, program_rom, active_program_1, active_program_2,
                   cpu, ops>>

NextPpu ==
    \/ \E c \in PpuCycles : Frame_advance(c)
    \/ Status_read
    \/ \E d \in ControlData : Control_write(d)

SpecPpu == InitPpu /\ [][NextPpu]_vars

\* the loop keeps calling advance, one cycle at a time among other budgets
SpecPpuLive == SpecPpu /\ WF_vars(Frame_advance(1))


\* ------------------------------------------------------------------------
\* Claims about the CPU
\* ------------------------------------------------------------------------
\* an instruction has been executed; Cur is the latest one
HasStep == last.kind = "cpu" /\ Len(last.steps) > 0
Cur == last.steps[Len(last.steps)]
Ran(names) == HasStep /\ ~Cur.fault /\ Cur.name \in names

\* the byte the latest instruction read last: its operand
Operand == Cur.log[Len(Cur.log)].data

\* a flag as 0 or 1
Bit(p, f) == IF contains(p, f) THEN 1 ELSE 0

AdcHandlers ==
    {"adc_immediate", "adc_zero_page", "adc_zero_page_x", "adc_absolute", "adc_absolute_x",
     "adc_absolute_y", "adc_zero_page_x_indirect", "adc_zero_page_y_indirect"}

\* C11: ADC with operand M and carry-in C leaves A = (A + M + C) mod 256,
\* carry = (A + M + C >= 256), overflow = ((A ^ result) & (M ^ result) & 0x80) /= 0,
\* Z = (result = 0) and N = bit 7 of the result
C11_AdcResult ==
    Ran(AdcHandlers) =>
        LET A == Cur.pre.accumulator
            M == Operand
            total == A + M + Bit(Cur.pre.processor_status, CARRY)
            result == total % 256
            P == Cur.post.processor_status
        IN  /\ Cur.post.accumulator = result
            /\ contains(P, CARRY) <=> total >= 256
            /\ contains(P, OVERFLOW) <=>
                   BitAnd(BitAnd(BitXor(A, result), BitXor(M, result)), 128) /= 0
            /\ contains(P, ZERO) <=> result = 0
            /\ contains(P, NEGATIVE) <=> result \div 128 = 1

\* ADC #$00 with A = 0xFF and the carry set has wrapped to 0 with a carry out
C11_Witness ==
    /\ Ran({"adc_immediate"})
    /\ Cur.pre.accumulator = 255
    /\ Operand = 0
    /\ contains(Cur.pre.processor_status, CARRY)
    /\ Cur.post.accumulator = 0
    /\ contains(Cur.post.processor_status, CARRY)

SbcHandlers ==
    {"sbc_immediate", "sbc_zero_page", "sbc_zero_page_x", "sbc_absolute", "sbc_absolute_x",
     "sbc_absolute_y", "sbc_zero_page_x_indirect", "sbc_zero_page_y_indirect"}

\* what ADC with operand M and carry-in C makes of accumulator A
AdcOf(A, M, C) ==
    LET total == A + M + C
        result == total % 256
    IN  [accumulator |-> result,
         carry |-> total >= 256,
         overflow |-> BitAnd(BitAnd(BitXor(A, result), BitXor(M, result)), 128) /= 0,
         zero |-> result = 0,
         negative |-> result \div 128 = 1]

\* C12: SBC with operand M leaves the accumulator, carry, overflow, N and Z
\* that ADC with operand 255 - M leaves from the same state
C12_SbcAsAdc ==
    Ran(SbcHandlers) =>
        LET adc == AdcOf(Cur.pre.accumulator, 255 - Operand,
                         Bit(Cur.pre.processor_status, CARRY))
            P == Cur.post.processor_status
        IN  /\ Cur.post.accumulator = adc.accumulator
            /\ contains(P, CARRY) <=> adc.carry
            /\ contains(P, OVERFLOW) <=> adc.overflow
            /\ contains(P, ZERO) <=> adc.zero
            /\ contains(P, NEGATIVE) <=> adc.negative

\* TAX, TXA, TAY, TYA, TSX: the register read and the register written
TransferRegisters ==
    ("transfer_a_x" :> <<"accumulator", "idx_register_x">>)
    @@ ("transfer_x_a" :> <<"idx_register_x", "accumulator">>)
    @@ ("transfer_a_y" :> <<"accumulator", "idx_register_y">>)
    @@ ("transfer_y_a" :> <<"idx_register_y", "accumulator">>)
    @@ ("transfer_sp_x" :> <<"stack_pointer", "idx_register_x">>)

\* C13: after TAX, TXA, TAY, TYA or TSX the destination holds the source value v,
\* N = bit 7 of v and Z = (v = 0), whatever the other registers hold; TXS copies
\* X to SP and leaves the status register unchanged
C13_Transfers ==
    /\ Ran(DOMAIN TransferRegisters) =>
           LET v == Cur.pre[TransferRegisters[Cur.name][1]]
               P == Cur.post.processor_status
           IN  /\ Cur.post[TransferRegisters[Cur.name][2]] = v
               /\ Bit(P, NEGATIVE) = v \div 128
               /\ contains(P, ZERO) <=> v = 0
    /\ Ran({"transfer_x_sp"}) =>
           /\ Cur.post.stack_pointer = Cur.pre.idx_register_x
           /\ Cur.post.processor_status = Cur.pre.processor_status

\* LDX, LDY, INX, INY, DEX, DEY write a register; INC, DEC and the memory
\* forms of ASL, LSR, ROL, ROR write memory
RegisterWriters ==
    {n \in DOMAIN HANDLERS :
        \/ HANDLERS[n].gen = "load_gen" /\ HANDLERS[n].b /= "accumulator"
        \/ HANDLERS[n].gen = "inc_dec_gen"}
MemoryWriters ==
    {n \in DOMAIN HANDLERS : HANDLERS[n].gen \in {"inc_dec_mem_gen", "shift_mem_gen"}}

\* the byte the latest instruction stored in its destination
Stored ==
    IF Cur.name \in MemoryWriters THEN Cur.log[Len(Cur.log)].data
    ELSE IF HANDLERS[Cur.name].gen = "load_gen" THEN Cur.post[HANDLERS[Cur.name].b]
    ELSE Cur.post[HANDLERS[Cur.name].a]

\* C14: after LDX, LDY, INX, INY, DEX, DEY, INC/DEC on memory and the memory
\* forms of ASL/LSR/ROL/ROR, Z is set iff the stored byte is 0 and N is bit 7
\* of that byte, whatever the accumulator holds
C14_FlagsOfStoredByte ==
    Ran(RegisterWriters \cup MemoryWriters) =>
        /\ contains(Cur.post.processor_status, ZERO) <=> Stored = 0
        /\ Bit(Cur.post.processor_status, NEGATIVE) = Stored \div 128

PushHandlers == {"push_a", "push_status"}
PullHandlers == {"pull_a", "pull_status"}

\* steps s .. s + k - 1 are pushes and steps s + k .. s + k + j - 1 are pulls,
\* none of which panicked
PushesThenPulls(s, k, j) ==
    /\ \A i \in s..(s + k - 1) :
           last.steps[i].name \in PushHandlers /\ ~last.steps[i].fault
    /\ \A i \in (s + k)..(s + k + j - 1) :
           last.steps[i].name \in PullHandlers /\ ~last.steps[i].fault

\* the register a push stores and a pull loads
StackRegister(name) ==
    IF name \in {"push_a", "pull_a"} THEN "accumulator" ELSE "processor_status"

\* C15: when k pushes (PHA/PHP) are followed by pulls, the j-th pull returns
\* the value of the (k - j + 1)-th push: PLA loads it into the accumulator, PLP
\* into all eight bits of the status, and after the k-th pull SP is what it was
\* before the first push
C15_StackLifo ==
    HasStep =>
        \A s \in 1..Len(last.steps), k \in 1..Len(last.steps), j \in 1..Len(last.steps) :
            (j <= k /\ s + k + j - 1 = Len(last.steps) /\ PushesThenPulls(s, k, j)) =>
                LET push == last.steps[s + k - j]
                    pushed == push.pre[StackRegister(push.name)]
                IN  /\ Operand = pushed
                    /\ Cur.post[StackRegister(Cur.name)] = pushed
                    /\ j = k => Cur.post.stack_pointer = last.steps[s].pre.stack_pointer

\* PHA, PHP, PLA, PLP from SP = 0x00: the accumulator and the status have
\* changed places and SP is 0x00 again
C15_Witness ==
    /\ HasStep
    /\ Len(last.steps) = 4
    /\ PushesThenPulls(1, 2, 2)
    /\ [i \in 1..4 |-> last.steps[i].name] = <<"push_a", "push_status", "pull_a", "pull_status">>
    /\ last.steps[1].pre.accumulator = 128
    /\ last.steps[1].pre.processor_status = 36
    /\ last.steps[1].pre.stack_pointer = 0
    /\ cpu.accumulator = 36
    /\ cpu.processor_status = 128
    /\ cpu.stack_pointer = 0

\* the handlers that call push_stack and those that call pop_stack
Pushers == PushHandlers \cup {"break_instr", "jump_subroutine"}
Pullers == PullHandlers \cup {"return_from_interrupt", "return_from_subroutine"}

StackPage == 256..511

\* C16: every stack push or pop accesses only 0x0100..0x01FF and SP wraps
\* modulo 256 without faulting: a push at SP writes 0x0100 + SP and leaves
\* SP - 1 mod 256 (0x00 -> 0xFF), a pop at SP leaves SP + 1 mod 256
\* (0xFF -> 0x00) and reads 0x0100 + the new SP
C16_StackPage ==
    HasStep =>
        /\ Cur.name \in Pushers =>
               \A i \in DOMAIN Cur.log :
                   Cur.log[i].kind = "write" => Cur.log[i].addr \in StackPage
        /\ Cur.name \in Pullers =>
               \A i \in 2..Len(Cur.log) : Cur.log[i].addr \in StackPage
        /\ Cur.name \in PushHandlers =>
               /\ ~Cur.fault
               /\ Cur.log[2].kind = "write"
               /\ Cur.log[2].addr = 256 + Cur.pre.stack_pointer
               /\ Cur.post.stack_pointer = (Cur.pre.stack_pointer + 255) % 256
        /\ Cur.name \in PullHandlers =>
               /\ ~Cur.fault
               /\ Cur.log[2].kind = "read"
               /\ Cur.log[2].addr = 256 + Cur.post.stack_pointer
               /\ Cur.post.stack_pointer = (Cur.pre.stack_pointer + 1) % 256

\* a push at SP = 0x00 wrote 0x0100 and left SP = 0xFF, and the pull after it
\* read 0x0100 and left SP = 0x00
C16_Witness ==
    /\ HasStep
    /\ Len(last.steps) = 2
    /\ last.steps[1].name \in PushHandlers
    /\ last.steps[1].pre.stack_pointer = 0
    /\ last.steps[1].log[2].addr = 256
    /\ last.steps[1].post.stack_pointer = 255
    /\ Cur.name \in PullHandlers
    /\ Cur.log[2].addr = 256
    /\ cpu.stack_pointer = 0
    /\ ~fault

\* the step before the latest one
Prev == last.steps[Len(last.steps) - 1]

\* C17: JSR at address a with target t pushes its return address (a + 2, the
\* last byte of the JSR) high byte first and sets PC = t; RTS executed as the
\* next instruction sets PC = a + 3 and restores SP to its value before the JSR
C17_JsrRts ==
    /\ Ran({"jump_subroutine"}) =>
           LET a == Cur.pre.program_counter
               sp == Cur.pre.stack_pointer
           IN  /\ Len(Cur.log) = 5
               /\ Cur.log[2] = [kind |-> "write", addr |-> 256 + sp,
                                data |-> ((a + 2) \div 256) % 256]
               /\ Cur.log[3] = [kind |-> "write", addr |-> 256 + ((sp + 255) % 256),
                                data |-> (a + 2) % 256]
               /\ Cur.log[4].addr = (a + 1) % 65536
               /\ Cur.log[5].addr = (a + 2) % 65536
               /\ Cur.post.program_counter = from_le_bytes(Cur.log[4].data, Cur.log[5].data)
    /\ (Ran({"return_from_subroutine"}) /\ Len(last.steps) > 1
            /\ Prev.name = "jump_subroutine" /\ ~Prev.fault) =>
           /\ Cur.post.program_counter = (Prev.pre.program_counter + 3) % 65536
           /\ Cur.post.stack_pointer = Prev.pre.stack_pointer

\* JSR $0300 at 0x0200 with SP = 0x00 followed by the RTS at 0x0300
C17_Witness ==
    /\ Ran({"return_from_subroutine"})
    /\ Len(last.steps) = 2
    /\ Prev.name = "jump_subroutine"
    /\ Prev.pre.program_counter = CodeBase
    /\ Prev.pre.stack_pointer = 0
    /\ Prev.post.program_counter = Handler
    /\ Prev.post.stack_pointer = 254
    /\ cpu.program_counter = CodeBase + 3
    /\ cpu.stack_pointer = 0

\* the byte a cartridge maps at a program ROM address: the first bank in the
\* lower window, the last bank (mirrored when there is only one) in the upper
RomByte(address) ==
    LET bank == IF address < PROGRAM_ROM_2 THEN 1 ELSE Len(program_rom)
    IN  Get(program_rom[bank].file, (address - PROGRAM_ROM) % program_rom[bank].len)

\* address - n within the stack page
StackBelow(sp, n) == 256 + ((sp + 256 - n) % 256)

\* C18: BRK executed with I set writes PC high at 0x0100 | SP, then PC low and
\* P at the next two lower stack addresses (SP decreases by 3), clears I and
\* loads PC from the little-endian bytes at 0xFFFE/0xFFFF; A, X, Y are unchanged
C18_Brk ==
    (HasStep /\ Cur.name = "break_instr" /\ contains(Cur.pre.processor_status, INTERRUPT)) =>
        LET pc == (Cur.pre.program_counter + 1) % 65536
            sp == Cur.pre.stack_pointer
        IN  /\ ~Cur.fault
            /\ Len(Cur.log) = 6
            /\ Cur.log[2] = [kind |-> "write", addr |-> StackBelow(sp, 0), data |-> pc \div 256]
            /\ Cur.log[3] = [kind |-> "write", addr |-> StackBelow(sp, 1), data |-> pc % 256]
            /\ Cur.log[4] = [kind |-> "write", addr |-> StackBelow(sp, 2),
                             data |-> Cur.pre.processor_status]
            /\ Cur.post.stack_pointer = (sp + 253) % 256
            /\ Cur.post.processor_status = remove(Cur.pre.processor_status, INTERRUPT)
            /\ Cur.post.program_counter = from_le_bytes(RomByte(65534), RomByte(65535))
            /\ Cur.post.accumulator = Cur.pre.accumulator
            /\ Cur.post.idx_register_x = Cur.pre.idx_register_x
            /\ Cur.post.idx_register_y = Cur.pre.idx_register_y

\* address + n within the stack page
StackAbove(sp, n) == 256 + ((sp + n) % 256)

\* C19: RTI pops P, then PC low, then PC high; executed as the first
\* instruction of the handler entered by a BRK taken with I set, it restores P
\* and PC to the values the BRK pushed and SP to its value before the BRK
C19_RtiAfterBrk ==
    /\ Ran({"return_from_interrupt"}) =>
           LET sp == Cur.pre.stack_pointer
           IN  /\ Len(Cur.log) = 4
               /\ \A i \in 2..4 : /\ Cur.log[i].kind = "read"
                                  /\ Cur.log[i].addr = StackAbove(sp, i - 1)
               /\ Cur.post.processor_status = Cur.log[2].data
               /\ Cur.post.program_counter = from_le_bytes(Cur.log[3].data, Cur.log[4].data)
               /\ Cur.post.stack_pointer = (sp + 3) % 256
    /\ (Ran({"return_from_interrupt"}) /\ Len(last.steps) > 1
            /\ Prev.name = "break_instr" /\ ~Prev.fault
            /\ contains(Prev.pre.processor_status, INTERRUPT)) =>
           /\ Cur.post.processor_status = Prev.pre.processor_status
           /\ Cur.post.program_counter = (Prev.pre.program_counter + 1) % 65536
           /\ Cur.post.stack_pointer = Prev.pre.stack_pointer

\* BRK at 0x0200 with SP = 0x01 and P = 0xC7 entered the handler at 0x0300,
\* whose RTI put back P, SP and the pushed PC
C19_Witness ==
    /\ Ran({"return_from_interrupt"})
    /\ Len(last.steps) = 2
    /\ Prev.name = "break_instr"
    /\ Prev.pre.stack_pointer = 1
    /\ Prev.pre.processor_status = 199
    /\ Prev.post.program_counter = Handler
    /\ Prev.post.stack_pointer = 254
    /\ Prev.post.processor_status = 195
    /\ cpu.processor_status = 199
    /\ cpu.program_counter = CodeBase + 1
    /\ cpu.stack_pointer = 1

\* the immediate forms of CMP (0xC9), CPX (0xE0) and CPY (0xC0) and the
\* register each compares
CompareRegister ==
    (201 :> "accumulator") @@ (224 :> "idx_register_x") @@ (192 :> "idx_register_y")

\* C20: a CPU step on CMP, CPX or CPY (immediate, fetched from built-in RAM)
\* with register value r and operand M sets C iff r >= M, Z iff r = M and N to
\* bit 7 of (r - M) mod 256, and leaves A, X, Y and memory unchanged
C20_CompareStep ==
    [][ (HasStep' /\ ~Cur'.fault /\ Cur'.opcode \in DOMAIN CompareRegister
             /\ cpu.program_counter + 1 < MMIO) =>
            LET r == cpu[CompareRegister[Cur'.opcode]]
                M == Get(ram, index_ram(cpu.program_counter + 1))
                P == cpu'.processor_status
            IN  /\ contains(P, CARRY) <=> r >= M
                /\ contains(P, ZERO) <=> r = M
                /\ Bit(P, NEGATIVE) = ((r + 256 - M) % 256) \div 128
                /\ cpu'.accumulator = cpu.accumulator
                /\ cpu'.idx_register_x = cpu.idx_register_x
                /\ cpu'.idx_register_y = cpu.idx_register_y
                /\ ram' = ram /\ battery_ram' = battery_ram /\ ppu' = ppu ]_vars

\* the opcodes of the instruction set, by family
LoadStoreOps ==
    {169, 165, 181, 173, 189, 185, 161, 177, 162, 166, 182, 174, 190,
     160, 164, 180, 172, 188, 133, 149, 141, 157, 153, 129, 145,
     134, 150, 142, 132, 148, 140}
TransferOps == {170, 138, 168, 152, 186, 154}
LogicalOps ==
    {9, 5, 21, 13, 29, 25, 1, 17, 41, 37, 53, 45, 61, 57, 33, 49,
     73, 69, 85, 77, 93, 89, 65, 81}
ArithmeticOps ==
    {105, 101, 117, 109, 125, 121, 97, 113, 233, 229, 245, 237, 253, 249, 225, 241}
CompareOps == {201, 197, 213, 205, 221, 217, 193, 209, 224, 228, 236, 192, 196, 204}
IncDecOps == {230, 246, 238, 254, 198, 214, 206, 222, 232, 200, 202, 136}
ShiftOps ==
    {10, 6, 22, 14, 30, 74, 70, 86, 78, 94, 42, 38, 54, 46, 62, 106, 102, 118, 110, 126}
BitOps == {36, 44}
BranchOps == {16, 48, 80, 112, 144, 176, 208, 240}
JumpOps == {76, 108, 32, 96}
InterruptOps == {0, 64}
StackOps == {72, 8, 104, 40}
FlagOps == {24, 56, 216, 248, 88, 120, 184}
InstructionSet ==
    LoadStoreOps \cup TransferOps \cup LogicalOps \cup ArithmeticOps \cup CompareOps
    \cup IncDecOps \cup ShiftOps \cup BitOps \cup BranchOps \cup JumpOps
    \cup InterruptOps \cup StackOps \cup FlagOps

\* C21: an instruction whose opcode belongs to the instruction set is run by
\* a handler of its own: not by the no-op handler, and by no handler that
\* another opcode of the instruction set is dispatched to
C21_Dispatch ==
    (HasStep /\ Cur.name /= "none" /\ Cur.opcode \in InstructionSet) =>
        /\ Cur.name /= "noop"
        /\ \A o \in InstructionSet \ {Cur.opcode} : OP_MAP(o) /= Cur.name

ShiftAHandlers == {"asl_a", "lsr_a", "rol_a", "ror_a"}
ShiftMemHandlers ==
    {n \o m : n \in {"asl_", "lsr_", "rol_", "ror_"},
              m \in {"zero_page", "zero_page_x", "absolute", "absolute_x"}}

\* what a shift or rotate of the 6502 makes of byte v with carry-in cin
ShiftOf(op, v, cin) ==
    CASE op = "asl" -> [result |-> (2 * v) % 256, carry |-> v \div 128]
      [] op = "lsr" -> [result |-> v \div 2, carry |-> v % 2]
      [] op = "rol" -> [result |-> ((2 * v) % 256) + cin, carry |-> v \div 128]
      [] op = "ror" -> [result |-> (v \div 2) + 128 * cin, carry |-> v % 2]

\* the byte the latest shift or rotate took and the byte it left: the
\* accumulator before and after, or the byte read from and the byte written
\* to the effective address
ShiftIn ==
    IF Cur.name \in ShiftAHandlers THEN Cur.pre.accumulator
    ELSE Cur.log[Len(Cur.log) - 1].data
ShiftOut ==
    IF Cur.name \in ShiftAHandlers THEN Cur.post.accumulator
    ELSE Cur.log[Len(Cur.log)].data

\* C22: ASL, LSR, ROL and ROR, on the accumulator and on memory, leave the
\* defined result and carry, Z set iff the result is 0 and N equal to bit 7 of
\* the result
C22_Shifts ==
    Ran(ShiftAHandlers \cup ShiftMemHandlers) =>
        LET op == IF Cur.name \in ShiftAHandlers THEN HANDLERS[Cur.name].a
                  ELSE HANDLERS[Cur.name].b
            e == ShiftOf(op, ShiftIn, Bit(Cur.pre.processor_status, CARRY))
            P == Cur.post.processor_status
        IN  /\ ShiftOut = e.result
            /\ Bit(P, CARRY) = e.carry
            /\ contains(P, ZERO) <=> e.result = 0
            /\ Bit(P, NEGATIVE) = e.result \div 128

\* the flag a branch opcode tests and the value of the flag that branches
BranchFlag(opcode) ==
    CASE opcode \in {16, 48} -> NEGATIVE
      [] opcode \in {80, 112} -> OVERFLOW
      [] opcode \in {144, 176} -> CARRY
      [] opcode \in {208, 240} -> ZERO
BranchOnSet(opcode) == opcode \in {48, 112, 176, 240}
\* the other branch of the set/reset pair
Sibling(opcode) == IF BranchOnSet(opcode) THEN opcode - 32 ELSE opcode + 32

RanBranch == HasStep /\ ~Cur.fault /\ Cur.opcode \in BranchOps
\* a branch is taken when it reads its offset
Taken == Len(Cur.log) = 2
\* the signed value of an offset byte
Signed(b) == IF b >= 128 THEN b - 256 ELSE b

\* C23: a branch leaves PC = (address after the offset) + signed offset mod 2^16
\* exactly when its flag condition holds and PC = address after the offset
\* otherwise; of a set/reset pair exactly one branches from the same state; no
\* other register and no flag changes
C23_Branches ==
    RanBranch =>
        LET pre == Cur.pre
            next == (pre.program_counter + 2) % 65536
            cond == contains(pre.processor_status, BranchFlag(Cur.opcode))
                        = BranchOnSet(Cur.opcode)
            other == call(OP_MAP(Sibling(Cur.opcode)),
                          [Machine(Mem, pre) EXCEPT
                              !.r.program_counter = (pre.program_counter + 1) % 65536],
                          [dang |-> Intended, overflow_checks |-> FALSE])
        IN  /\ Taken <=> cond
            /\ Taken =>
                   /\ Cur.log[2].addr = (pre.program_counter + 1) % 65536
                   /\ Cur.post.program_counter =
                          (next + Signed(Cur.log[2].data) + 65536) % 65536
            /\ ~Taken => Cur.post.program_counter = next
            /\ Cur.post = [pre EXCEPT !.program_counter = Cur.post.program_counter]
            /\ (Len(other.log) = 1) <=> ~Taken

\* BMI at address 2 with offset 0x80 and N set has branched backwards past
\* address 0, to 0xFF84
C23_Witness ==
    /\ RanBranch
    /\ Cur.opcode = 48
    /\ Cur.pre.program_counter = 2
    /\ Taken
    /\ Cur.log[2].data = 128
    /\ Cur.post.program_counter = 65412

\* C24: an instruction whose program-counter or operand-address arithmetic
\* passes 0xFFFF does not fault: PC is left wrapped into 0x0000.., and the
\* byte after the one at 0xFFFF is taken from 0x0000
C24_Wrap ==
    (HasStep /\ Cur.overflow) =>
        /\ ~Cur.fault
        /\ Cur.post.program_counter < 3
        /\ \A i \in 1..(Len(Cur.log) - 1) :
               Cur.log[i].addr = 65535 => Cur.log[i + 1].addr = 0

\* ------------------------------------------------------------------------
\* Claims about the PPU frame machine
\* ------------------------------------------------------------------------
Advanced == last.kind = "ppu" /\ last.op = "advance"

\* C25: advance never faults, from any phase, with any budget and any value
\* of control register 1
C25_AdvanceNeverFaults == Advanced => ~fault

\* the status bits
VBlankSet == BitAnd(ppu.ppu_status, VBlankIndicator) /= 0
StatusBits == BitAnd(ppu.ppu_status, VBlankIndicator + SpriteCollision + ScanlineSpriteCount)

\* C28: VBlank becomes set only by an advance that reaches cycle 2 of the
\* Vblank phase, it is set whenever the phase is Vblank at cycle 2 or later,
\* and under repeated advance calls it is set again and again
C28_VBlank ==
    /\ [][(~VBlankSet /\ VBlankSet') =>
             (ppu'.state.tag = "Vblank" /\ ppu'.state.cycle >= 2)]_vars
    /\ []((ppu.state.tag = "Vblank" /\ ppu.state.cycle >= 2) => VBlankSet)
    /\ []<>(VBlankSet \/ (Advanced /\ last.pre.tag = "Vblank"))

\* an advance has just entered PreRender from Vblank
EnteredPreRender == Advanced /\ last.pre.tag = "Vblank" /\ ppu.state.tag = "PreRender"

Phase(st) == [tag |-> st.tag, line |-> st.line, sl |-> st.sl]
Following(ph) ==
    CASE ph.tag = "PreRender" -> Phase(VisibleLines(0, "Idle", 0))
      [] ph.tag = "VisibleLines" /\ ph.sl = "Idle" ->
             Phase(VisibleLines(ph.line, "Render", 0))
      [] ph.tag = "VisibleLines" /\ ph.sl = "Render" ->
             Phase(VisibleLines(ph.line, "SpriteFetch", 0))
      [] ph.tag = "VisibleLines" /\ ph.sl = "SpriteFetch" ->
             Phase(VisibleLines(ph.line, "PreFetch", 0))
      [] ph.tag = "VisibleLines" /\ ph.sl = "PreFetch" ->
             Phase(VisibleLines(ph.line, "OtherFetch", 0))
      [] ph.tag = "VisibleLines" /\ ph.sl = "OtherFetch" ->
             IF ph.line = 239 THEN Phase(PostRender(0))
             ELSE Phase(VisibleLines(ph.line + 1, "Idle", 0))
      [] ph.tag = "PostRender" -> Phase(Vblank(0))
      [] ph.tag = "Vblank" -> Phase(PreRender(0))

\* C30: an advance of one cycle keeps the phase or moves it to the phase that
\* follows it, the line index stays in 0..239, and advancing one cycle at a
\* time visits every sub-phase of a scanline and every phase of the frame
C30_PhaseOrder ==
    /\ [][(last'.op = "advance" /\ last'.cycles = 1 /\ ~fault') =>
             Phase(ppu'.state) \in {Phase(ppu.state), Following(Phase(ppu.state))}]_vars
    /\ [](ppu.state.line \in 0..239)
    /\ \A sl \in {"Idle", "Render", "SpriteFetch", "PreFetch", "OtherFetch"} :
           <>(ppu.state.tag = "VisibleLines" /\ ppu.state.sl = sl)
    /\ \A tag \in {"PreRender", "VisibleLines", "PostRender", "Vblank"} :
           <>(ppu.state.tag = tag)

\* ------------------------------------------------------------------------
\* Cartridge loader specification: Memory::from_file on a file of the disk
\* ------------------------------------------------------------------------
\* a file: whether it can be opened, its length, and its non-zero bytes
File(size, bytes) ==
    [exists |-> TRUE, size |-> size,
     bytes |-> [i \in {j \in DOMAIN bytes : j < size} |-> bytes[i]]]
Missing == [exists |-> FALSE, size |-> 0, bytes |-> Zeroed]

\* the bytes a read of `len` bytes at offset `from` puts in its buffer
Slice(f, from, len) ==
    [k \in {j - from : j \in {i \in DOMAIN f.bytes : i >= from /\ i < from + len}} |->
        f.bytes[k + from]]

\* the values of Result<Memory, NesError>, and the panic that returns nothing
Ok(mapper_number, m) == [tag |-> "Ok", msg |-> "", mapper |-> mapper_number, mem |-> m]
Err(tag, msg) == [tag |-> tag, msg |-> msg, mapper |-> 0]
Panicked(msg) == [tag |-> "panic", msg |-> msg, mapper |-> 0]

\* Memory::from_file(path): the header checks, the trainer, the banks read
\* with read_exact, and the bus built from them by from_file
Memory_from_file(f) ==
    LET header(i) == Get(f.bytes, i)
        prg_rom_count == header(4)
        vrom_count == header(5)
        mapper_number == ((header(7) \div 16) * 16) + (header(6) \div 16)
        battery == (header(6) \div 2) % 2 = 1
        trainer == (header(6) \div 4) % 2 = 1
        trainer_len == IF ~trainer THEN 0
                       ELSE IF f.size - 16 < 512 THEN f.size - 16 ELSE 512
        prg_at == 16 + trainer_len
        vrom_at == prg_at + prg_rom_count * PROGRAM_ROM_SIZE
    IN  IF ~f.exists THEN Err("IO", "open")
        ELSE IF f.size < 16 THEN Err("FileFormat", "file too short")
        ELSE IF <<header(0), header(1), header(2), header(3)>> # <<78, 69, 83, 26>>
        THEN Err("FileFormat", "incorrect identifying bytes, not a .nes file?")
        ELSE IF ~battery /\ trainer THEN Panicked("idx what happens in this case")
        ELSE IF f.size < vrom_at + vrom_count * VROM_SIZE
        THEN Err("IO", "failed to fill whole buffer")
        ELSE IF prg_rom_count = 0 THEN Panicked("index out of bounds")
        ELSE Ok(mapper_number,
                from_file([prg |-> [i \in 1..prg_rom_count |->
                                       Slice(f, prg_at + (i - 1) * PROGRAM_ROM_SIZE,
                                             PROGRAM_ROM_SIZE)],
                           vrom |-> [i \in 1..vrom_count |->
                                        Slice(f, vrom_at + (i - 1) * VROM_SIZE, VROM_SIZE)],
                           battery |-> battery,
                           trainer |-> Slice(f, 16, trainer_len)]))

\* the files handed to the loader: a missing file, files shorter than the
\* header, and headers with right and wrong identifying bytes, zero to two
\* program banks, zero or one VROM bank, every combination of the battery and
\* trainer bits, mapper numbers 0, 1 and 16, the NES 2.0 mark, followed by
\* the whole body the header announces or by none of it
Magics == {<<78, 69, 83, 26>>, <<78, 69, 83, 0>>, <<0, 69, 83, 26>>}
RomControl0 == {0, 1, 2, 4, 6, 16}
RomControl1 == {0, 8, 16}
BodyMarks ==
    (16 :> 7) @@ (527 :> 9) @@ (528 :> 11) @@ (16399 :> 13) @@ (16400 :> 15)
        @@ (16911 :> 17) @@ (16912 :> 19) @@ (32783 :> 21) @@ (32784 :> 23)
        @@ (36879 :> 25) @@ (37391 :> 27)
BodySize(prg, vrom, c0) ==
    (IF (c0 \div 4) % 2 = 1 THEN 512 ELSE 0) + prg * PROGRAM_ROM_SIZE + vrom * VROM_SIZE
Files ==
    {Missing}
    \cup {File(n, At(0, <<78, 69, 83, 26, 1>>)) : n \in {0, 3, 15}}
    \cup {File(16 + (IF whole THEN BodySize(prg, vrom, c0) ELSE 0),
                At(0, magic) @@ At(4, <<prg, vrom, c0, c1>>) @@ BodyMarks) :
              magic \in Magics, prg \in 0..2, vrom \in 0..1,
              c0 \in RomControl0, c1 \in RomControl1, whole \in BOOLEAN}

\* before the load nothing is constructed
InitLoad ==
    /\ ram = Zeroed
    /\ battery_ram = None
    /\ program_rom = << >>
    /\ active_program_1 = 0
    /\ active_program_2 = 0
    /\ ppu = PPU_new(<< >>)
    /\ cpu = from_file_nestest
    /\ fault = FALSE
    /\ \E f \in Files : last = [kind |-> "file", file |-> f, result |-> Err("", "")]
    /\ ops = 0

\* CPU::from_file_nestest(path): Memory::from_file(path)? and the registers
Load ==
    /\ ~fault
    /\ last.kind = "file"
    /\ LET loaded(r) ==
               /\ fault' = (r.tag = "panic")
               /\ IF r.tag = "Ok"
                  THEN /\ ram' = r.mem.ram
                       /\ battery_ram' = r.mem.battery_ram
                       /\ program_rom' = r.mem.program_rom
                       /\ active_program_1' = r.mem.active_program_1
                       /\ active_program_2' = r.mem.active_program_2
                       /\ ppu' = r.mem.ppu
                  ELSE UNCHANGED <<ram, battery_ram, program_rom, active_program_1,
                                   active_program_2, ppu>>
               /\ last' = [kind |-> "load", file |-> last.file,
                           result |-> Err(r.tag, r.msg)]
       IN  loaded(Memory_from_file(last.file))
    /\ UNCHANGED <<cpu, ops>>

NextLoad == Load

SpecLoad == InitLoad /\ [][NextLoad]_vars

\* ------------------------------------------------------------------------
\* Attribute specification: NameTable::map_pattern_to_attribute applied to an
\* attribute byte and a tile index
\* ------------------------------------------------------------------------
\* every attribute byte, and tile indices of the four quadrants of a 4 x 4
\* tile group (shift amounts 0, 1, 2, 3 and 3 again for the last tile)
AttributeBytes == 0..255
TilePatterns == {0, 2, 32, 34, 255}

\* the attribute bytes of a name table (what split_at leaves after the tile
\* ids), all holding byte a
Attributes(a) == [i \in 0..62 |-> a]

InitAttr ==
    /\ ram = Zeroed
    /\ battery_ram = None
    /\ program_rom = << >>
    /\ active_program_1 = 0
    /\ active_program_2 = 0
    /\ ppu = PPU_new(<< >>)
    /\ cpu = with_program
    /\ fault = FALSE
    /\ \E a \in AttributeBytes, p \in TilePatterns :
          last = [kind |-> "attribute", attribute |-> a, pattern |-> p,
                  ret |-> 0, done |-> FALSE]
    /\ ops = 0

\* name_table.map_pattern_to_attribute(pattern_idx)
Attribute_lookup ==
    /\ ~last.done
    /\ last' = [last EXCEPT
                    !.ret = map_pattern_to_attribute(Attributes(last.attribute),
                                                     last.pattern),
                    !.done = TRUE]
    /\ UNCHANGED <<ram, battery_ram, program_rom, active_program_1, active_program_2,
                   ppu, cpu, fault, ops>>

NextAttr == Attribute_lookup

SpecAttr == InitAttr /\ [][NextAttr]_vars

\* ------------------------------------------------------------------------
\* Claims about the cartridge loader
\* ------------------------------------------------------------------------
\* the bank of the image that window `address` shows: the first bank in the
\* lower window, the second bank (the sole bank again when there is only one)
\* in the upper window
WindowBank(address) ==
    IF address < PROGRAM_ROM_2 \/ Len(program_rom) < 2 THEN 1 ELSE 2

\* C26: on a bus constructed from a cartridge image, a read of 0x8000 + k
\* returns byte k of bank 0, a read of 0xC000 + k returns byte k of bank 1 (of
\* bank 0 when the image has one bank), and neither read faults
C26_BankWindows ==
    (last.kind = "read" /\ last.addr >= PROGRAM_ROM /\ active_program_1 # 0) =>
        /\ ~fault
        /\ last.ret = Get(program_rom[WindowBank(last.addr)].file,
                          last.addr % PROGRAM_ROM_SIZE)

\* the mapper number an iNES header announces: the high nibbles of bytes 7, 6
HeaderMapper(f) == ((Get(f.bytes, 7) \div 16) * 16) + (Get(f.bytes, 6) \div 16)
BadMagic(f) ==
    \E i \in 0..3 : Get(f.bytes, i) # <<78, 69, 83, 26>>[i + 1]

\* C27: loading a file that is shorter than the header, or whose first four
\* bytes are not N E S 0x1A, or whose header names a mapper other than 0,
\* returns a FileFormat error; no file makes the loader abort
C27_LoadErrors ==
    (last.kind = "load" /\ last.file.exists) =>
        /\ (last.file.size < 16 \/ BadMagic(last.file) \/ HeaderMapper(last.file) # 0)
               => last.result.tag = "FileFormat"
        /\ last.result.tag # "panic"
        /\ ~fault

\* ------------------------------------------------------------------------
\* Claims about the frame timing
\* ------------------------------------------------------------------------
\* the cycles of a frame, and the cycles a phase position is away from the
\* start of PreRender when every phase lasts its documented number of cycles:
\* a scanline is 1 + 256 + 64 + 16 + 4 cycles
FrameCycles ==
    (SCANLINES_PRERENDER + SCANLINES_VISIBLE + SCANLINES_POSTRENDER + SCANLINES_VBLANK)
        * CYCLES_SCANLINE
SubPhaseStart(sl) ==
    CASE sl = "Idle" -> 0
      [] sl = "Render" -> IDLE_CYCLES
      [] sl = "SpriteFetch" -> IDLE_CYCLES + RENDER_CYCLES
      [] sl = "PreFetch" -> IDLE_CYCLES + RENDER_CYCLES + SPRITE_FETCH_CYCLES
      [] sl = "OtherFetch" ->
             IDLE_CYCLES + RENDER_CYCLES + SPRITE_FETCH_CYCLES + PRE_FETCH_CYCLES
Position(st) ==
    CASE st.tag = "PreRender" -> st.cycle
      [] st.tag = "VisibleLines" ->
             (SCANLINES_PRERENDER + st.line) * CYCLES_SCANLINE
                 + SubPhaseStart(st.sl) + st.cycle
      [] st.tag = "PostRender" ->
             (SCANLINES_PRERENDER + SCANLINES_VISIBLE) * CYCLES_SCANLINE + st.cycle
      [] st.tag = "Vblank" ->
             (SCANLINES_PRERENDER + SCANLINES_VISIBLE + SCANLINES_POSTRENDER)
                 * CYCLES_SCANLINE + st.cycle

\* C31: however the cycles are split across advance calls, the PPU is as far
\* into the frame as the cycles it was given, every phase lasting its
\* documented length: after 262 x 341 cycles it is at the start of PreRender
C31_PhaseLengths ==
    Advanced =>
        /\ ~fault
        /\ Position(ppu.state) % FrameCycles = last.total % FrameCycles

\* ------------------------------------------------------------------------
\* Claims about the PPU registers: the shared latch, the address increment,
\* the read mirrors
\* ------------------------------------------------------------------------
\* a write to register 5 or register 6 has just been made
LatchWrite(l) == l.kind = "write" /\ (IsReg(l.addr, 5) \/ IsReg(l.addr, 6))

\* C32: registers 5 and 6 share one two-state latch: every write to either
\* flips it; from a reset latch a write to register 5 followed by a write to
\* register 6 stores the second byte as the low byte of the VRAM address (an
\* increment of 1 or 32 aside), and a write to register 6 followed by a write
\* to register 5 stores the second byte as the Y scroll
C32_SharedLatch ==
    /\ [](ppu.byte_shift \in {0, 8})
    /\ [][ (LatchWrite(last') /\ ~fault') =>
               /\ ppu'.byte_shift = 8 - ppu.byte_shift
               /\ (last.kind = "write" /\ IsReg(last.addr, 5) /\ last.shift = 8
                   /\ IsReg(last'.addr, 6)) =>
                     (ppu'.vram_address + 256 - last'.data) % 256 \in {0, 1, 32}
               /\ (last.kind = "write" /\ IsReg(last.addr, 6) /\ last.shift = 8
                   /\ IsReg(last'.addr, 5)) =>
                     ppu'.y_scroll = last'.data ]_vars

\* the step Control1 selects for the VRAM address
Increment(control) == IF BitAnd(control, AddressIncrement) # 0 THEN 32 ELSE 1

\* C33: the first register-6 write of a pair does not increment the VRAM
\* address (its low byte stays), the second leaves the address written by the
\* pair plus 1 or 32 as Control1 selects, and neither write faults
C33_AddressIncrement ==
    [][ (last'.kind = "write" /\ IsReg(last'.addr, 6)) =>
            /\ ~fault'
            /\ ppu.byte_shift = 8 =>
                  ppu'.vram_address % 256 = ppu.vram_address % 256
            /\ (last.kind = "write" /\ IsReg(last.addr, 6) /\ last.shift = 8) =>
                  ppu'.vram_address % VRAM_SIZE =
                      (BitAnd(last.data * 256 + last'.data, VRAM_SIZE - 1)
                           + Increment(ppu.ppu_control_1)) % VRAM_SIZE ]_vars

\* C34: a read of any address in 0x2000..0x3FFF returns the byte, and has the
\* effect on the PPU, of a read of register 0x2000 + (address mod 8)
C34_ReadMirror ==
    [][ (last'.kind = "read" /\ last'.addr >= MMIO /\ last'.addr < 2 * MMIO) =>
            \E o \in Memory_index(Mem, MMIO + (last'.addr % 8)) :
                /\ fault' = o.fault
                /\ last'.ret = o.ret
                /\ ~o.fault => ppu' = o.mem.ppu ]_vars

\* ------------------------------------------------------------------------
\* Claims about rendering
\* ------------------------------------------------------------------------
\* attribute byte a with bit b inverted
FlipBit(a, b) == IF (a \div Pow2(b)) % 2 = 1 THEN a - Pow2(b) ELSE a + Pow2(b)

\* the bits of attribute byte a that the palette selector of tile p depends on
Field(a, p) ==
    {b \in 0..7 : map_pattern_to_attribute(Attributes(FlipBit(a, b)), p)
                      # map_pattern_to_attribute(Attributes(a), p)}

\* the quadrant of its 4 x 4 tile group that tile p lies in
Quadrant(p) == ((p % 4) \div 2) + 2 * ((p \div 32) % 2)

\* C37: the palette selector of a tile is a value in 0..3 taken from a 2-bit
\* field of the attribute byte; the fields of the four quadrants are pairwise
\* disjoint and together cover the 8 bits
C37_AttributeFields ==
    (last.kind = "attribute" /\ last.done) =>
        /\ last.ret \in 0..3
        /\ Cardinality(Field(last.attribute, last.pattern)) = 2
        /\ \A q \in TilePatterns :
               Quadrant(q) # Quadrant(last.pattern) =>
                   Field(last.attribute, q) \cap Field(last.attribute, last.pattern) = {}
        /\ UNION {Field(last.attribute, q) : q \in TilePatterns} = 0..7

\* the 8-pixel bursts <<scanline, column>> whose last cycle lies within the
\* first t cycles of a frame: Render of scanline y begins 1 cycle into the
\* scanline, after PreRender
BurstsDone(t) ==
    {yx \in (0..(IF t \div CYCLES_SCANLINE < SCANLINES_VISIBLE
                 THEN t \div CYCLES_SCANLINE ELSE SCANLINES_VISIBLE - 1))
                \X {8 * k : k \in 0..((RENDER_CYCLES \div 8) - 1)} :
        ((SCANLINES_PRERENDER + yx[1]) * CYCLES_SCANLINE) + IDLE_CYCLES + yx[2] + 8 <= t}

\* the bursts the latest advance call had to render
BurstsDue == BurstsDone(last.total) \ BurstsDone(last.total - last.cycles)

\* the framebuffer offsets of the 8 pixels of a burst: 3 bytes per pixel,
\* row-major
BurstCells(yx) ==
    (3 * ((FRAME_WIDTH * yx[1]) + yx[2])) .. ((3 * ((FRAME_WIDTH * yx[1]) + yx[2])) + 23)

\* C35: an advance that completes 8-pixel bursts of Render writes, for the
\* burst at columns x..x+7 of scanline y, the 24 framebuffer bytes from
\* 3 * (256 * y + x) on, and no other byte
C35_BurstCells ==
    (Advanced /\ BurstsDue # {}) =>
        /\ ~fault
        /\ UNION {b.cells : b \in last.bursts} = UNION {BurstCells(yx) : yx \in BurstsDue}

\* the VRAM address of the tile of a burst: the pattern table Control1 bit 4
\* selects, plus 16 times the name-table byte of the tile the pixel lies in
TileAddress(yx) ==
    (IF BitAnd(ppu.ppu_control_1, BackgroundTable) # 0 THEN PATTERN_TABLE_SIZE ELSE 0)
        + 16 * Get(ppu.vram.file,
                   8192 + (1024 * BitAnd(ppu.ppu_control_1, NameTableAddressMask))
                        + (32 * (yx[1] \div 8)) + (yx[2] \div 8))

\* C36: each burst an advance renders fetches its tile from the pattern-table
\* base plus 16 times the pattern ID of the tile containing the pixel
C36_PatternFetch ==
    (Advanced /\ BurstsDue # {}) =>
        /\ ~fault
        /\ {b.pattern_address : b \in last.bursts} = {TileAddress(yx) : yx \in BurstsDue}

\* ------------------------------------------------------------------------
\* Claims about BRK with I clear and about the zero-page pointer fetch
\* ------------------------------------------------------------------------
\* C38: BRK executed with I clear pushes PC high, PC low and P (SP decreases
\* by 3) and loads PC from the bytes it reads at 0xFFFE/0xFFFF, as it does
\* when executed with I set
C38_BrkRegardlessOfI ==
    (HasStep /\ Cur.name = "break_instr"
         /\ ~contains(Cur.pre.processor_status, INTERRUPT)) =>
        LET pc == (Cur.pre.program_counter + 1) % 65536
            sp == Cur.pre.stack_pointer
        IN  /\ Len(Cur.log) >= 4
            /\ Cur.log[2] = [kind |-> "write", addr |-> StackBelow(sp, 0), data |-> pc \div 256]
            /\ Cur.log[3] = [kind |-> "write", addr |-> StackBelow(sp, 1), data |-> pc % 256]
            /\ Cur.log[4] = [kind |-> "write", addr |-> StackBelow(sp, 2),
                             data |-> Cur.pre.processor_status]
            /\ ~Cur.fault =>
                   /\ Len(Cur.log) = 6
                   /\ Cur.log[5].addr = 65534 /\ Cur.log[6].addr = 65535
                   /\ Cur.post.stack_pointer = (sp + 253) % 256
                   /\ Cur.post.program_counter =
                          from_le_bytes(Cur.log[5].data, Cur.log[6].data)

\* ------------------------------------------------------------------------
\* Claims about the cycle budget
\* ------------------------------------------------------------------------
\* what an advance leaves: whether it panicked and, if not, the phase with its
\* line index and cycle counter and the Status bits
Left(f, p) ==
    [fault |-> f,
     state |-> IF f THEN PreRender(0) ELSE p.state,
     status |-> IF f THEN 0 ELSE p.ppu_status]
LeftBy(r) == Left(r.fault, r.ppu)

\* C39: two advance calls in a row, of a and then b cycles, leave the phase,
\* line index, cycle counter and Status bits that one call of a + b cycles
\* leaves from where the first call started
C39_AdvanceAdditive ==
    [][ (Advanced /\ Advanced') =>
            Left(fault', ppu') =
                LeftBy(PPU_advance([ppu EXCEPT !.state = last.pre],
                                   last.cycles + last'.cycles)) ]_vars

\* a cycle in PreRender and then a scanline: the second call crossed from
\* PreRender through Idle into Render
C39_Witness ==
    /\ Advanced /\ ~fault
    /\ last.total = 343 /\ last.cycles = 341
    /\ last.pre = PreRender(2)
    /\ ppu.state = VisibleLines(0, "Render", 1)

\* C40: an instruction in (zp,X) or (zp),Y mode reads both bytes of its
\* pointer from the zero page, the high byte from the cell after the low byte
\* with 8-bit wrap (0x0000 after 0x00FF), and the fetch does not fault
C40_ZeroPagePointer ==
    (HasStep /\ Cur.opcode \in IndirectOps /\ Cur.name # "noop"
         /\ Cur.pre.program_counter = CodeBase) =>
        /\ ~Cur.fault
        /\ Len(Cur.log) >= 4
        /\ Cur.log[3].kind = "read" /\ Cur.log[3].addr < 256
        /\ Cur.log[4].kind = "read"
        /\ Cur.log[4].addr = (Cur.log[3].addr + 1) % 256
====
